---- MODULE Spec2Model ----
(***************************************************************************)
(* Booking-and-marketplace backend: the auth router (login, tourist and    *)
(* provider signup) and the admin router (providers, tourists, bookings)   *)
(* of src/routes/auth.js, as a state machine over the three document       *)
(* collections the handlers read and write.  One action per route handler; *)
(* a request is an input record drawn from a finite set of bodies.         *)
(*                                                                         *)
(* JavaScript numbers are fixed-point integers counting hundredths, so     *)
(* 9.8 is 980 and 3 persons is 300; the inputs are chosen so that every    *)
(* product the handlers compute is exact at that scale.                    *)
(***************************************************************************)
EXTENDS Integers, Sequences, FiniteSets, TLC

VARIABLES tourists, providers, bookings, contacts, nextTourist, nextProvider, nextBooking,
          nextContact, reqUser, res,
          pc, attempt, connects, delays, exitCode, inflight, issued

vars ==
  <<tourists, providers, bookings, contacts, nextTourist, nextProvider, nextBooking,
    nextContact, reqUser, res, pc, attempt, connects, delays,
    exitCode, inflight, issued>>

\* the state of connectWithRetry: where it stands, the loop variable i, the calls of
\* mongoose.connect and of setTimeout made so far, and the argument of process.exit
boot == <<pc, attempt, connects, delays, exitCode>>

(***************************************************************************)
(* Bounds of the model.                                                    *)
(***************************************************************************)
MaxTourists == 2

MaxProviders == 2

MaxBookings == 1

MaxContacts == 1

\* requests that have passed their lookups and await their write
MaxInflight == 2

(***************************************************************************)
(* JavaScript values of request fields: undefined, a number, NaN, a string *)
(***************************************************************************)
Undefined == [t |-> "undefined", n |-> 0, s |-> ""]

NaN == [t |-> "NaN", n |-> 0, s |-> ""]

Num(k) == [t |-> "number", n |-> k, s |-> ""]

Fixed(units, hundredths) == Num(units * 100 + hundredths)

Str(x) == [t |-> "string", n |-> 0, s |-> x]

\* !v is ~Truthy(v): undefined, 0, NaN and "" are falsy, every other value truthy
Truthy(v) ==
  CASE v.t = "undefined" -> FALSE
    [] v.t = "NaN" -> FALSE
    [] v.t = "number" -> v.n # 0
    [] v.t = "string" -> v.s # ""

\* the decimal strings the request bodies of the model use, with their value
NumericStrings ==
  [s \in {"", "0", "1", "2", "20", "9.8", "-5"} |->
     CASE s = "" -> 0
       [] s = "0" -> 0
       [] s = "1" -> 100
       [] s = "2" -> 200
       [] s = "20" -> 2000
       [] s = "9.8" -> 980
       [] s = "-5" -> 0 - 500]

\* Number(v): undefined and non-numeric strings give NaN, "" gives 0
Number(v) ==
  CASE v.t = "undefined" -> NaN
    [] v.t = "NaN" -> NaN
    [] v.t = "number" -> v
    [] v.t = "string" -> IF v.s \in DOMAIN NumericStrings THEN Num(NumericStrings[v.s]) ELSE NaN

\* v || d
OrElse(v, d) == IF Truthy(v) THEN v ELSE d

IsNaN(v) == v.t = "NaN"

\* a + b and a * b on numbers; NaN is contagious
Plus(a, b) == IF IsNaN(a) \/ IsNaN(b) THEN NaN ELSE Num(a.n + b.n)

Times(a, b) == IF IsNaN(a) \/ IsNaN(b) THEN NaN ELSE Num((a.n * b.n) \div 100)

(***************************************************************************)
(* bcrypt: the digest depends on the salt and on the first 72 bytes of the *)
(* password only; a stored value that is no digest never compares equal.   *)
(***************************************************************************)
Truncate(password) == IF Len(password) > 72 THEN SubSeq(password, 1, 72) ELSE password

Salts == {"salt1"}

\* a password stored as it was given: what a handler that skips hashing persists
PlainHash(password, salt) == [hashed |-> FALSE, salt |-> "", key |-> password]

Hash(password, salt) == [hashed |-> TRUE, salt |-> salt, key |-> Truncate(password)]

Compare(password, stored) == stored.hashed /\ stored.key = Truncate(password)

(***************************************************************************)
(* Identifiers.  An ObjectId is a 24-digit hexadecimal string; the model   *)
(* names the ids the database hands out t1.., p1.., b1.. and keeps one     *)
(* well-formed id that no document ever has and one malformed string.      *)
(***************************************************************************)
TouristId(k) == "t" \o ToString(k)

ProviderId(k) == "p" \o ToString(k)

BookingId(k) == "b" \o ToString(k)

ContactId(k) == "c" \o ToString(k)

UnusedObjectId == "ffffffffffffffffffffffff"

MalformedId == "not-an-id"

MaxIds == MaxTourists + MaxProviders + MaxBookings + MaxContacts + 1

ObjectIds ==
  {TouristId(k) : k \in 1..MaxIds} \cup {ProviderId(k) : k \in 1..MaxIds}
    \cup {BookingId(k) : k \in 1..MaxIds} \cup {ContactId(k) : k \in 1..MaxIds}
    \cup {UnusedObjectId}

\* mongoose.Types.ObjectId.isValid(id)
IsValid(id) == id \in ObjectIds

(***************************************************************************)
(* The collections.  findOne({email}) returns some document with that      *)
(* email (the database promises no order), findById the one with that id.  *)
(***************************************************************************)
FindByEmail(collection, email) == {d \in collection : d.email = email}

FindById(collection, id) == {d \in collection : d.id = id}

\* a write that would leave no index at all on email: every write passes
NoUniqueIndex(collection, id, email) == FALSE

\* an index on _id alone: a fresh document never collides
UniqueIdOnly(collection, id, email) == \E d \in collection : d.id = id

\* email is a unique key of its collection: a write that gives the document id an email
\* another document has is refused with a duplicate-key error.  The routes that create
\* a document look the email up before they save, so an update runs into it, and so
\* does a save whose lookup ran before another request saved the same email.
DuplicateKey(collection, id, email) == \E d \in collection : d.id # id /\ d.email = email

\* the Admin collection: no route of the program writes it
Admins == {[id |-> "a1", username |-> "admin", password |-> Hash("admin-secret", "salt1")]}

(***************************************************************************)
(* Responses: the route that answered, the status, the error string of the *)
(* JSON body (empty on success) and the token issued, if any.              *)
(***************************************************************************)
NoToken == [id |-> "", role |-> ""]

Sign(id, role) == [id |-> id, role |-> role]

Reply(op, status, error) == [op |-> op, status |-> status, error |-> error, token |-> NoToken]

ReplyToken(op, status, token) == [op |-> op, status |-> status, error |-> "", token |-> token]

\* no request is being handled: the last response has been sent
NoResponse == Reply("", 0, "")

\* mongoose.connect has resolved: the queries of the handlers run
Connected == pc = "connected"

Ready == res = NoResponse /\ Connected

\* the response leaves the server; the next request is taken after it
Send ==
  /\ res # NoResponse
  /\ res' = NoResponse
  /\ UNCHANGED <<tourists, providers, bookings, nextTourist, nextProvider, nextBooking>>
  /\ reqUser' = NoToken
  /\ UNCHANGED <<contacts, nextContact, boot, issued, inflight>>

\* the same step with the tokens that have left the server kept: the route that signed
\* each one and its payload
Issued(op, token) == [op |-> op, token |-> token]

Deliver ==
  /\ res # NoResponse
  /\ res' = NoResponse
  /\ issued' = IF res.token = NoToken THEN issued ELSE issued \cup {Issued(res.op, res.token)}
  /\ reqUser' = NoToken
  /\ UNCHANGED <<tourists, providers, bookings, nextTourist, nextProvider, nextBooking>>
  /\ UNCHANGED <<contacts, nextContact, boot, inflight>>

MinPasswordLength == 6

\* a test that asks for the "@" only
EmailRegexNoDot(email) ==
  \E a \in 2..(Len(email) - 1) : SubSeq(email, a, a) = "@"

\* /^[^\s@]+@[^\s@]+\.[^\s@]+$/.test(email)
EmailRegexTest(email) ==
  LET n == Len(email)
      ch(i) == SubSeq(email, i, i)
      ats == {i \in 1..n : ch(i) = "@"}
  IN /\ \A i \in 1..n : ch(i) # " "
     /\ Cardinality(ats) = 1
     /\ \E a \in ats : a > 1 /\ \E d \in (a + 2)..(n - 1) : ch(d) = "."

(***************************************************************************)
(* POST /auth/login                                                        *)
(***************************************************************************)
ValidRoles == {"tourist", "provider", "admin"}

\* the documents the lookup of the login route can return, in the collections given
\* a lookup that searches the tourists for every role but provider
LoginLookupAmongTourists(touristDocs, providerDocs, req) ==
  IF req.role = "provider" THEN FindByEmail(providerDocs, req.email)
  ELSE FindByEmail(touristDocs, req.email)

LoginLookup(touristDocs, providerDocs, req) ==
  CASE req.role = "tourist" -> FindByEmail(touristDocs, req.email)
    [] req.role = "provider" -> FindByEmail(providerDocs, req.email)
    [] req.role = "admin" -> {a \in Admins : a.username = req.email}

\* a login that does not look at the approved flag
LoginAsUngated(user, req) ==
  IF ~Compare(req.password, user.password)
  THEN Reply("login", 400, "Invalid credentials")
  ELSE ReplyToken("login", 200, Sign(user.id, req.role))

\* the route from the password comparison on, for the document found
LoginAs(user, req) ==
  IF ~Compare(req.password, user.password)
  THEN Reply("login", 400, "Invalid credentials")
  ELSE IF req.role = "provider" /\ ~user.approved
  THEN Reply("login", 403, "Provider not approved yet")
  ELSE ReplyToken("login", 200, Sign(user.id, req.role))

\* every response the route can give to req when the collections are as given
LoginResponsesIn(touristDocs, providerDocs, req) ==
  IF req.email = "" \/ req.password = "" \/ req.role = ""
  THEN {Reply("login", 400, "Email, password, and role are required")}
  ELSE IF req.role \notin ValidRoles
  THEN {Reply("login", 400, "Invalid role")}
  ELSE IF LoginLookup(touristDocs, providerDocs, req) = {}
  THEN {Reply("login", 400,
              "No " \o req.role \o " found with this "
                \o (IF req.role = "admin" THEN "username" ELSE "email"))}
  ELSE {LoginAs(user, req) : user \in LoginLookup(touristDocs, providerDocs, req)}

\* every response the route can give to req in the current state
LoginResponses(req) == LoginResponsesIn(tourists, providers, req)

Login(Reqs) ==
  /\ Ready
  /\ \E req \in Reqs : \E out \in LoginResponses(req) :
    /\ res' = out
    /\ UNCHANGED <<tourists, providers, bookings, nextTourist, nextProvider, nextBooking>>
    /\ UNCHANGED <<contacts, nextContact, reqUser, boot, issued, inflight>>

(***************************************************************************)
(* POST /auth/tourist/signup                                               *)
(***************************************************************************)
TouristDoc(id, req, password) ==
  [id |-> id, fullName |-> req.fullName, email |-> req.email, password |-> password,
   country |-> req.country]

\* a signup that persists the password as given
SignupPasswordPlain(password, salt) == PlainHash(password, salt)

\* the password value a signup persists
SignupPassword(password, salt) == Hash(password, salt)

TouristSignupHandler(req, salt) ==
  IF req.fullName = "" \/ req.email = "" \/ req.password = "" \/ req.country = ""
  THEN [res |-> Reply("touristSignup", 400, "All fields are required"), tourists |-> tourists]
  ELSE IF ~EmailRegexTest(req.email)
  THEN [res |-> Reply("touristSignup", 400, "Invalid email format"), tourists |-> tourists]
  ELSE IF Len(req.password) < MinPasswordLength
  THEN [res |-> Reply("touristSignup", 400, "Password must be at least 6 characters"),
        tourists |-> tourists]
  ELSE IF FindByEmail(tourists, req.email) # {}
  THEN [res |-> Reply("touristSignup", 400, "Email already exists"), tourists |-> tourists]
  ELSE LET id == TouristId(nextTourist + 1)
       IN [res |-> ReplyToken("touristSignup", 201, Sign(id, "tourist")),
           tourists |->
             tourists \cup {TouristDoc(id, req, SignupPassword(req.password, salt))}]

TouristSignup(Reqs) ==
  /\ Ready
  /\ \E req \in Reqs, salt \in Salts :
    LET out == TouristSignupHandler(req, salt)
    IN /\ out.res.status = 201 => nextTourist < MaxTourists
       /\ res' = out.res
       /\ tourists' = out.tourists
       /\ nextTourist' = IF out.res.status = 201 THEN nextTourist + 1 ELSE nextTourist
       /\ UNCHANGED <<providers, bookings, nextProvider, nextBooking>>
       /\ UNCHANGED <<contacts, nextContact, reqUser, boot, issued, inflight>>

(***************************************************************************)
(* multer: upload.fields runs before the handler of the three provider     *)
(* routes that take files, and hands its error to the error middleware.    *)
(***************************************************************************)
\* the files the clients of the model hold: declared content type and size in bytes
ClientFile(mimetype, size) == [mimetype |-> mimetype, size |-> size]

ClientFiles ==
  [name \in {"me.png", "jeep.jpg", "ME.PNG", "notes.pdf", "page.png", "script.js", "huge.png"} |->
     CASE name = "jeep.jpg" -> ClientFile("image/jpeg", 204800)
       [] name = "notes.pdf" -> ClientFile("application/pdf", 204800)
       [] name = "page.png" -> ClientFile("text/html", 204800)
       [] name = "huge.png" -> ClientFile("image/png", 6 * 1024 * 1024)
       [] OTHER -> ClientFile("image/png", 204800)]

FileSizeLimit == 5 * 1024 * 1024

UpperCase == "ABCDEFGHIJKLMNOPQRSTUVWXYZ"

LowerCase == "abcdefghijklmnopqrstuvwxyz"

RECURSIVE toLowerCase(_)
toLowerCase(str) ==
  IF str = "" THEN ""
  ELSE LET c == SubSeq(str, 1, 1)
           up == {i \in 1..Len(UpperCase) : SubSeq(UpperCase, i, i) = c}
       IN (IF up = {} THEN c ELSE LET i == CHOOSE i \in up : TRUE IN SubSeq(LowerCase, i, i))
            \o toLowerCase(SubSeq(str, 2, Len(str)))

\* path.extname: from the last dot on, "" when there is none or the name starts with it
extname(name) ==
  LET dots == {i \in 2..Len(name) : SubSeq(name, i, i) = "."}
  IN IF dots = {} THEN ""
     ELSE SubSeq(name, CHOOSE i \in dots : \A j \in dots : j <= i, Len(name))

\* /jpeg|jpg|png/.test(str): one of the three words occurs somewhere in str
filetypes(str) ==
  \E word \in {"jpeg", "jpg", "png"} :
    \E i \in 1..Len(str) : i + Len(word) - 1 <= Len(str) /\ SubSeq(str, i, i + Len(word) - 1) = word

fileFilter(name) ==
  filetypes(toLowerCase(extname(name))) /\ filetypes(ClientFiles[name].mimetype)

\* the files upload.fields stops at: the filter refuses them or they are over the size limit
Refused ==
  {name \in DOMAIN ClientFiles : ~fileFilter(name) \/ ClientFiles[name].size > FileSizeLimit}

\* upload.fields calls next(err) when a file of the request is refused.
\* A request that is not multipart passes through with req.files undefined.
UploadError(files) ==
  /\ files.multipart
  /\ \/ files.profilePicture \in Refused
     \/ \E i \in DOMAIN files.photos : files.photos[i] \in Refused

\* the error handling middleware of server.js
InternalServerError(op) == Reply(op, 500, "Internal server error")

(***************************************************************************)
(* POST /auth/provider/signup.  req.files is undefined when the request is *)
(* not multipart; otherwise it has a key for each field that carried files.*)
(***************************************************************************)
StoredName(file) == "1700000000000-" \o file

ProviderFieldsMissing(req) ==
  \/ req.serviceName = "" \/ req.fullName = "" \/ req.email = "" \/ req.contact = ""
  \/ req.category = "" \/ req.location = "" \/ ~Truthy(req.price) \/ req.description = ""
  \/ req.password = ""

ProviderDoc(id, req, price, password, approved, prefix) ==
  [id |-> id, serviceName |-> req.serviceName, fullName |-> req.fullName,
   email |-> req.email, contact |-> req.contact, category |-> req.category,
   location |-> req.location, price |-> price, description |-> req.description,
   password |-> password, approved |-> approved,
   profilePicture |-> prefix \o StoredName(req.files.profilePicture),
   photos |-> [i \in 1..Len(req.files.photos) |-> prefix \o StoredName(req.files.photos[i])]]

ProviderSignupHandler(req, salt) ==
  LET parsedPrice == Number(req.price)
      fail(error) == [res |-> Reply("providerSignup", 400, error), providers |-> providers]
  IN IF UploadError(req.files)
     THEN [res |-> InternalServerError("providerSignup"), providers |-> providers]
     ELSE IF ProviderFieldsMissing(req)
     THEN fail("All fields are required")
     ELSE IF ~EmailRegexTest(req.email)
     THEN fail("Invalid email format")
     ELSE IF Len(req.password) < MinPasswordLength
     THEN fail("Password must be at least 6 characters")
     ELSE IF IsNaN(parsedPrice) \/ parsedPrice.n <= 0
     THEN fail("Price must be a positive number")
     ELSE IF \/ ~req.files.multipart \/ req.files.profilePicture = ""
             \/ Len(req.files.photos) = 0
     THEN fail("Profile picture and at least one photo are required")
     ELSE IF FindByEmail(providers, req.email) # {}
     THEN fail("Email already exists")
     ELSE LET id == ProviderId(nextProvider + 1)
          IN [res |-> ReplyToken("providerSignup", 201, Sign(id, "provider")),
              providers |->
                providers \cup {ProviderDoc(id, req, parsedPrice.n,
                                            SignupPassword(req.password, salt),
                                            FALSE, "/Uploads/")}]

ProviderSignup(Reqs) ==
  /\ Ready
  /\ \E req \in Reqs, salt \in Salts :
    LET out == ProviderSignupHandler(req, salt)
    IN /\ out.res.status = 201 => nextProvider < MaxProviders
       /\ res' = out.res
       /\ providers' = out.providers
       /\ nextProvider' = IF out.res.status = 201 THEN nextProvider + 1 ELSE nextProvider
       /\ UNCHANGED <<tourists, bookings, nextTourist, nextBooking>>
       /\ UNCHANGED <<contacts, nextContact, reqUser, boot, issued, inflight>>

(***************************************************************************)
(* The admin router.  verifyAdmin runs before every handler: the header is *)
(* absent, of another scheme, or a Bearer token that fails verification,   *)
(* has expired, or verifies and carries a role.                            *)
(***************************************************************************)
Header(kind, id, role) == [kind |-> kind, id |-> id, role |-> role]

AuthHeaders ==
  {Header("none", "", ""), Header("basic", "", ""), Header("bearer-invalid", "", ""),
   Header("bearer-expired", "a1", "admin")}
    \cup {Header("bearer", IF r = "admin" THEN "a1" ELSE "u1", r) : r \in ValidRoles}

\* a middleware that reports every verification failure as an invalid token
verifyAdminOneReason(header) ==
  CASE header.kind \in {"none", "basic"} ->
         [next |-> FALSE, user |-> NoToken,
          res |-> Reply("verifyAdmin", 401, "No valid Bearer token provided")]
    [] header.kind \in {"bearer-expired", "bearer-invalid"} ->
         [next |-> FALSE, user |-> NoToken, res |-> Reply("verifyAdmin", 401, "Invalid token")]
    [] header.kind = "bearer" /\ header.role # "admin" ->
         [next |-> FALSE, user |-> NoToken,
          res |-> Reply("verifyAdmin", 403, "Not authorized: Admin only")]
    [] header.kind = "bearer" /\ header.role = "admin" ->
         [next |-> TRUE, user |-> Sign(header.id, header.role), res |-> NoResponse]

\* a middleware that lets every token through that verifies, whatever its role
verifyAdminAnyRole(header) ==
  CASE header.kind \in {"none", "basic"} ->
         [next |-> FALSE, user |-> NoToken,
          res |-> Reply("verifyAdmin", 401, "No valid Bearer token provided")]
    [] header.kind = "bearer-expired" ->
         [next |-> FALSE, user |-> NoToken, res |-> Reply("verifyAdmin", 401, "Token expired")]
    [] header.kind = "bearer-invalid" ->
         [next |-> FALSE, user |-> NoToken, res |-> Reply("verifyAdmin", 401, "Invalid token")]
    [] header.kind = "bearer" ->
         [next |-> TRUE, user |-> Sign(header.id, header.role), res |-> NoResponse]

\* next is TRUE when the middleware calls next(); user is req.user, the decoded token;
\* res is the response the middleware sends itself, none when it calls next()
verifyAdmin(header) ==
  CASE header.kind \in {"none", "basic"} ->
         [next |-> FALSE, user |-> NoToken,
          res |-> Reply("verifyAdmin", 401, "No valid Bearer token provided")]
    [] header.kind = "bearer-expired" ->
         [next |-> FALSE, user |-> NoToken, res |-> Reply("verifyAdmin", 401, "Token expired")]
    [] header.kind = "bearer-invalid" ->
         [next |-> FALSE, user |-> NoToken, res |-> Reply("verifyAdmin", 401, "Invalid token")]
    [] header.kind = "bearer" /\ header.role # "admin" ->
         [next |-> FALSE, user |-> NoToken,
          res |-> Reply("verifyAdmin", 403, "Not authorized: Admin only")]
    [] header.kind = "bearer" /\ header.role = "admin" ->
         [next |-> TRUE, user |-> Sign(header.id, header.role), res |-> NoResponse]

\* the request stops in the middleware: the handler does not run
Rejected(header) ==
  /\ ~verifyAdmin(header).next
  /\ res' = verifyAdmin(header).res
  /\ UNCHANGED <<tourists, providers, bookings, nextTourist, nextProvider, nextBooking>>
  /\ reqUser' = verifyAdmin(header).user
  /\ UNCHANGED <<contacts, nextContact, boot, issued, inflight>>

ServerError(op) == Reply(op, 500, "Server error")

(***************************************************************************)
(* POST /admin/providers                                                   *)
(***************************************************************************)
AddProviderHandler(req, salt) ==
  LET fail(error) == [res |-> Reply("addProvider", 400, error), providers |-> providers]
  IN IF UploadError(req.files)
     THEN [res |-> InternalServerError("addProvider"), providers |-> providers]
     ELSE IF ProviderFieldsMissing(req)
     THEN fail("All fields are required")
     ELSE IF ~req.files.multipart \/ req.files.profilePicture = "" \/ Len(req.files.photos) = 0
     THEN fail("Profile picture and at least one photo are required")
     ELSE IF Len(req.password) < MinPasswordLength
     THEN fail("Password must be at least 6 characters")
     ELSE IF FindByEmail(providers, req.email) # {}
     THEN fail("Email already exists")
     ELSE IF IsNaN(Number(req.price))
     THEN [res |-> ServerError("addProvider"), providers |-> providers]
     ELSE LET id == ProviderId(nextProvider + 1)
              doc == ProviderDoc(id, req, Number(req.price).n, Hash(req.password, salt),
                                 TRUE, "Uploads/")
          IN [res |-> Reply("addProvider", 201, ""), providers |-> providers \cup {doc}]

AddProvider(Reqs) ==
  /\ Ready
  /\ \E header \in AuthHeaders :
    \/ Rejected(header)
    \/ /\ verifyAdmin(header).next
       /\ reqUser' = verifyAdmin(header).user
       /\ \E req \in Reqs, salt \in Salts :
            LET out == AddProviderHandler(req, salt)
            IN /\ out.res.status = 201 => nextProvider < MaxProviders
               /\ res' = out.res
               /\ providers' = out.providers
               /\ nextProvider' =
                    IF out.res.status = 201 THEN nextProvider + 1 ELSE nextProvider
               /\ UNCHANGED <<tourists, bookings, nextTourist, nextBooking>>
               /\ UNCHANGED <<contacts, nextContact, boot, issued, inflight>>

(***************************************************************************)
(* PUT /admin/providers/:id.  updateData is the request body, with the     *)
(* password re-hashed when one is given and the file paths when files came.*)
(***************************************************************************)
\* the value findByIdAndUpdate stores for a password field of updateData
UpdatedPassword(password, salt) ==
  IF Truthy(password) THEN Hash(password.s, salt) ELSE PlainHash(password.s, salt)

\* the document with the fields of updateData that are not undefined set
ProviderUpdated(doc, upd, salt) ==
  [doc EXCEPT
     !.email = IF upd.email = Undefined THEN @ ELSE upd.email.s,
     !.password = IF upd.password = Undefined THEN @ ELSE UpdatedPassword(upd.password, salt),
     !.price = IF upd.price = Undefined THEN @ ELSE Number(upd.price).n,
     !.approved = IF upd.approved = "" THEN @ ELSE upd.approved = "true",
     !.profilePicture =
        IF upd.files.profilePicture = "" THEN @
        ELSE "Uploads/" \o StoredName(upd.files.profilePicture),
     !.photos =
        IF Len(upd.files.photos) = 0 THEN @
        ELSE [i \in 1..Len(upd.files.photos) |-> "Uploads/" \o StoredName(upd.files.photos[i])]]

UpdateProviderHandler(id, upd, salt) ==
  LET same(r) == [res |-> r, providers |-> providers]
  IN IF UploadError(upd.files)
     THEN same(InternalServerError("updateProvider"))
     ELSE IF ~IsValid(id)
     THEN same(Reply("updateProvider", 400, "Invalid Provider ID"))
     ELSE IF Truthy(upd.password) /\ Len(upd.password.s) < MinPasswordLength
     THEN same(Reply("updateProvider", 400, "Password must be at least 6 characters"))
     ELSE IF ~upd.files.multipart
     THEN same(ServerError("updateProvider"))
     ELSE IF upd.price # Undefined /\ IsNaN(Number(upd.price))
     THEN same(ServerError("updateProvider"))
     ELSE IF FindById(providers, id) = {}
     THEN same(Reply("updateProvider", 404, "Provider not found"))
     ELSE IF upd.email # Undefined /\ DuplicateKey(providers, id, upd.email.s)
     THEN same(ServerError("updateProvider"))
     ELSE [res |-> Reply("updateProvider", 200, ""),
           providers |->
             {IF d.id = id THEN ProviderUpdated(d, upd, salt) ELSE d : d \in providers}]

UpdateProvider(Ids, Updates) ==
  /\ Ready
  /\ \E header \in AuthHeaders :
    \/ Rejected(header)
    \/ /\ verifyAdmin(header).next
       /\ reqUser' = verifyAdmin(header).user
       /\ \E id \in Ids, upd \in Updates, salt \in Salts :
            LET out == UpdateProviderHandler(id, upd, salt)
            IN /\ res' = out.res
               /\ providers' = out.providers
               /\ UNCHANGED <<tourists, bookings, nextTourist, nextProvider, nextBooking>>
               /\ UNCHANGED <<contacts, nextContact, boot, issued, inflight>>

(***************************************************************************)
(* DELETE /admin/providers/:id and PUT /admin/providers/:id/approve        *)
(***************************************************************************)
DeleteProviderHandler(id) ==
  IF ~IsValid(id)
  THEN [res |-> Reply("deleteProvider", 400, "Invalid Provider ID"), providers |-> providers]
  ELSE IF FindById(providers, id) = {}
  THEN [res |-> Reply("deleteProvider", 404, "Provider not found"), providers |-> providers]
  ELSE [res |-> Reply("deleteProvider", 200, ""),
        providers |-> {d \in providers : d.id # id}]

DeleteProvider(Ids) ==
  /\ Ready
  /\ \E header \in AuthHeaders :
    \/ Rejected(header)
    \/ /\ verifyAdmin(header).next
       /\ reqUser' = verifyAdmin(header).user
       /\ \E id \in Ids :
            LET out == DeleteProviderHandler(id)
            IN /\ res' = out.res
               /\ providers' = out.providers
               /\ UNCHANGED <<tourists, bookings, nextTourist, nextProvider, nextBooking>>
               /\ UNCHANGED <<contacts, nextContact, boot, issued, inflight>>

ApproveProviderHandler(id) ==
  IF ~IsValid(id)
  THEN [res |-> Reply("approveProvider", 400, "Invalid Provider ID"), providers |-> providers]
  ELSE IF FindById(providers, id) = {}
  THEN [res |-> Reply("approveProvider", 404, "Provider not found"), providers |-> providers]
  ELSE [res |-> Reply("approveProvider", 200, ""),
        providers |->
          {IF d.id = id THEN [d EXCEPT !.approved = TRUE] ELSE d : d \in providers}]

ApproveProvider(Ids) ==
  /\ Ready
  /\ \E header \in AuthHeaders :
    \/ Rejected(header)
    \/ /\ verifyAdmin(header).next
       /\ reqUser' = verifyAdmin(header).user
       /\ \E id \in Ids :
            LET out == ApproveProviderHandler(id)
            IN /\ res' = out.res
               /\ providers' = out.providers
               /\ UNCHANGED <<tourists, bookings, nextTourist, nextProvider, nextBooking>>
               /\ UNCHANGED <<contacts, nextContact, boot, issued, inflight>>

(***************************************************************************)
(* POST /admin/tourists, PUT /admin/tourists/:id, DELETE /admin/tourists/:id*)
(***************************************************************************)
AddTouristHandler(req, salt) ==
  LET fail(error) == [res |-> Reply("addTourist", 400, error), tourists |-> tourists]
  IN IF req.fullName = "" \/ req.email = "" \/ req.password = "" \/ req.country = ""
     THEN fail("All fields are required")
     ELSE IF Len(req.password) < MinPasswordLength
     THEN fail("Password must be at least 6 characters")
     ELSE IF FindByEmail(tourists, req.email) # {}
     THEN fail("Email already exists")
     ELSE LET id == TouristId(nextTourist + 1)
          IN [res |-> Reply("addTourist", 201, ""),
              tourists |-> tourists \cup {TouristDoc(id, req, Hash(req.password, salt))}]

AddTourist(Reqs) ==
  /\ Ready
  /\ \E header \in AuthHeaders :
    \/ Rejected(header)
    \/ /\ verifyAdmin(header).next
       /\ reqUser' = verifyAdmin(header).user
       /\ \E req \in Reqs, salt \in Salts :
            LET out == AddTouristHandler(req, salt)
            IN /\ out.res.status = 201 => nextTourist < MaxTourists
               /\ res' = out.res
               /\ tourists' = out.tourists
               /\ nextTourist' = IF out.res.status = 201 THEN nextTourist + 1 ELSE nextTourist
               /\ UNCHANGED <<providers, bookings, nextProvider, nextBooking>>
               /\ UNCHANGED <<contacts, nextContact, boot, issued, inflight>>

TouristUpdated(doc, upd, salt) ==
  [doc EXCEPT
     !.email = IF upd.email = Undefined THEN @ ELSE upd.email.s,
     !.password = IF upd.password = Undefined THEN @ ELSE UpdatedPassword(upd.password, salt)]

UpdateTouristHandler(id, upd, salt) ==
  LET same(r) == [res |-> r, tourists |-> tourists]
  IN IF ~IsValid(id)
     THEN same(Reply("updateTourist", 400, "Invalid Tourist ID"))
     ELSE IF Truthy(upd.password) /\ Len(upd.password.s) < MinPasswordLength
     THEN same(Reply("updateTourist", 400, "Password must be at least 6 characters"))
     ELSE IF FindById(tourists, id) = {}
     THEN same(Reply("updateTourist", 404, "Tourist not found"))
     ELSE IF upd.email # Undefined /\ DuplicateKey(tourists, id, upd.email.s)
     THEN same(ServerError("updateTourist"))
     ELSE [res |-> Reply("updateTourist", 200, ""),
           tourists |->
             {IF d.id = id THEN TouristUpdated(d, upd, salt) ELSE d : d \in tourists}]

UpdateTourist(Ids, Updates) ==
  /\ Ready
  /\ \E header \in AuthHeaders :
    \/ Rejected(header)
    \/ /\ verifyAdmin(header).next
       /\ reqUser' = verifyAdmin(header).user
       /\ \E id \in Ids, upd \in Updates, salt \in Salts :
            LET out == UpdateTouristHandler(id, upd, salt)
            IN /\ res' = out.res
               /\ tourists' = out.tourists
               /\ UNCHANGED <<providers, bookings, nextTourist, nextProvider, nextBooking>>
               /\ UNCHANGED <<contacts, nextContact, boot, issued, inflight>>

DeleteTouristHandler(id) ==
  IF ~IsValid(id)
  THEN [res |-> Reply("deleteTourist", 400, "Invalid Tourist ID"), tourists |-> tourists]
  ELSE IF FindById(tourists, id) = {}
  THEN [res |-> Reply("deleteTourist", 404, "Tourist not found"), tourists |-> tourists]
  ELSE [res |-> Reply("deleteTourist", 200, ""), tourists |-> {d \in tourists : d.id # id}]

DeleteTourist(Ids) ==
  /\ Ready
  /\ \E header \in AuthHeaders :
    \/ Rejected(header)
    \/ /\ verifyAdmin(header).next
       /\ reqUser' = verifyAdmin(header).user
       /\ \E id \in Ids :
            LET out == DeleteTouristHandler(id)
            IN /\ res' = out.res
               /\ tourists' = out.tourists
               /\ UNCHANGED <<providers, bookings, nextTourist, nextProvider, nextBooking>>
               /\ UNCHANGED <<contacts, nextContact, boot, issued, inflight>>

(***************************************************************************)
(* The tiered pricing table.  min and max count persons, price is the      *)
(* per-person price; Infinity marks a band with no upper limit and Null a  *)
(* product that has no tier list.                                          *)
(***************************************************************************)
Infinity == -1

Null == [null |-> TRUE, tiers |-> <<>>]

Tiers(list) == [null |-> FALSE, tiers |-> list]

\* bands that reach one person further than written
TierWide(min, max, price) ==
  [min |-> min * 100, max |-> IF max = Infinity THEN Infinity ELSE (max + 1) * 100,
   price |-> price]

Tier(min, max, price) ==
  [min |-> min * 100, max |-> IF max = Infinity THEN Infinity ELSE max * 100, price |-> price]

PRICING_STRUCTURE ==
  [product \in {"Jeep Safari", "Catamaran Boat Ride", "Village Cooking Experience",
                "Bullock Cart Ride", "Village Tour", "Traditional Village Lunch",
                "Sundowners Cocktail", "High Tea", "Tuk Tuk Adventures"} |->
     CASE product = "Jeep Safari" ->
            Tiers(<<Tier(1, 3, 3800), Tier(4, 5, 3000), Tier(6, 10, 2000), Tier(11, 20, 1500)>>)
       [] product = "Catamaran Boat Ride" ->
            Tiers(<<Tier(1, 1, 980), Tier(2, Infinity, 700)>>)
       [] product = "Village Cooking Experience" ->
            Tiers(<<Tier(1, 5, 1500), Tier(6, 10, 1300), Tier(11, 20, 1100), Tier(21, 50, 1000)>>)
       [] product = "Bullock Cart Ride" ->
            Tiers(<<Tier(1, 5, 990), Tier(6, 20, 500), Tier(21, 50, 400)>>)
       [] product = "Village Tour" ->
            Tiers(<<Tier(1, 5, 1990), Tier(6, 10, 1820), Tier(11, 20, 1730), Tier(21, 30, 1630),
              Tier(31, 50, 1500)>>)
       [] product = "Traditional Village Lunch" ->
            Tiers(<<Tier(1, Infinity, 1500)>>)
       [] OTHER -> Null]

\* keys every JavaScript object inherits: the lookup finds a value that is no list
PrototypeKeys == {"constructor", "toString", "valueOf", "hasOwnProperty", "__proto__"}

\* !PRICING_STRUCTURE[productType]: the key is unknown or its entry is null
NoPricing(productType) ==
  /\ productType \notin PrototypeKeys
  /\ productType \notin DOMAIN PRICING_STRUCTURE \/ PRICING_STRUCTURE[productType].null

\* a band that leaves its upper limit out
InTierBelowMax(totalPersons, tier) ==
  /\ ~IsNaN(totalPersons)
  /\ totalPersons.n >= tier.min
  /\ tier.max = Infinity \/ totalPersons.n < tier.max

\* totalPersons >= tier.min && totalPersons <= tier.max
InTier(totalPersons, tier) ==
  /\ ~IsNaN(totalPersons)
  /\ totalPersons.n >= tier.min
  /\ tier.max = Infinity \/ totalPersons.n <= tier.max

\* pricing.find(...): the indices of the tiers that hold totalPersons; find takes the least
Matching(pricing, totalPersons) == {i \in 1..Len(pricing) : InTier(totalPersons, pricing[i])}

Find(pricing, totalPersons) ==
  LET hits == Matching(pricing, totalPersons)
  IN pricing[CHOOSE i \in hits : \A j \in hits : i <= j]

\* children billed at the adult rate
ProviderTotalFullRate(price, adults, children) ==
  Times(Num(price), Plus(Number(adults), Number(OrElse(children, Fixed(0, 0)))))

\* provider.price * (Number(adults) + Number(children || 0) * 0.5)
ProviderTotal(price, adults, children) ==
  Times(Num(price), Plus(Number(adults), Times(Number(OrElse(children, Fixed(0, 0))), Fixed(0, 50))))

\* Number(adults) + Number(children || 0)
TotalPersons(adults, children) == Plus(Number(adults), Number(OrElse(children, Fixed(0, 0))))

\* totalPersons * tier.price
ProductTotal(totalPersons, tier) == Times(totalPersons, Num(tier.price))

ShowNumber(v) == IF IsNaN(v) THEN "NaN" ELSE ToString(v.n \div 100)

(***************************************************************************)
(* POST /admin/bookings/admin                                              *)
(***************************************************************************)
\* the fields of bookingData set before the pricing source is looked at
BookingData(req) ==
  [touristId |-> req.touristId, date |-> req.date, time |-> req.time,
   adults |-> Number(req.adults), children |-> Number(OrElse(req.children, Fixed(0, 0))),
   status |-> IF req.status = "" THEN "pending" ELSE req.status,
   specialNotes |-> req.specialNotes, providerId |-> "", productType |-> "",
   totalPrice |-> Undefined]

\* Booking.create throws on a field that does not cast to the type of its path
CastFails(data) == IsNaN(data.adults) \/ IsNaN(data.children) \/ IsNaN(data.totalPrice)

BookingDoc(id, data) ==
  [id |-> id, touristId |-> data.touristId, providerId |-> data.providerId,
   productType |-> data.productType, date |-> data.date, time |-> data.time,
   adults |-> data.adults.n, children |-> data.children.n, status |-> data.status,
   totalPrice |-> data.totalPrice.n, specialNotes |-> data.specialNotes]

\* Booking.create(bookingData) and the response that follows it
Create(data) ==
  IF CastFails(data)
  THEN [res |-> ServerError("addBooking"), bookings |-> bookings]
  ELSE [res |-> Reply("addBooking", 201, ""),
        bookings |-> bookings \cup {BookingDoc(BookingId(nextBooking + 1), data)}]

\* the totalPrice of the request body kept when the client sends one
PricedByClient(req, computed) ==
  IF Truthy(req.totalPrice) THEN Number(req.totalPrice) ELSE computed

\* bookingData.totalPrice = computed: the totalPrice of the request body is not read
Priced(req, computed) == computed

\* the provider branch, for a providerId that is truthy
ProviderBranch(req) ==
  IF FindById(providers, req.providerId) = {}
  THEN [res |-> Reply("addBooking", 404, "Provider not found"), bookings |-> bookings]
  ELSE LET provider == CHOOSE d \in providers : d.id = req.providerId
       IN Create([BookingData(req) EXCEPT
                    !.providerId = req.providerId,
                    !.totalPrice =
                       Priced(req, ProviderTotal(provider.price, req.adults, req.children))])

\* the product branch, for a productType that is truthy
ProductBranch(req) ==
  LET same(r) == [res |-> r, bookings |-> bookings]
      totalPersons == TotalPersons(req.adults, req.children)
  IN IF NoPricing(req.productType)
     THEN same(Reply("addBooking", 400, "Invalid product type or no pricing available"))
     ELSE IF req.productType \in PrototypeKeys
     THEN same(ServerError("addBooking"))
     ELSE IF Matching(PRICING_STRUCTURE[req.productType].tiers, totalPersons) = {}
     THEN same(Reply("addBooking", 400,
                     "No pricing tier for " \o ShowNumber(totalPersons) \o " persons"))
     ELSE Create([BookingData(req) EXCEPT
                    !.productType = req.productType,
                    !.totalPrice =
                       Priced(req,
                              ProductTotal(totalPersons,
                                           Find(PRICING_STRUCTURE[req.productType].tiers,
                                                totalPersons)))])

\* the check for two pricing sources left out
BothSourcesUnchecked(req) == FALSE

\* providerId && productType
BothSources(req) == req.providerId # "" /\ req.productType # ""

\* a final else that falls through to Booking.create
NoSourceBranchCreates(req) == Create(BookingData(req))

\* the final else: neither providerId nor productType is truthy
NoSourceBranch(req) ==
  [res |-> Reply("addBooking", 400, "Either providerId or productType is required"),
   bookings |-> bookings]

AddBookingHandler(req) ==
  LET same(r) == [res |-> r, bookings |-> bookings]
  IN IF req.touristId = "" \/ req.date = "" \/ req.time = "" \/ ~Truthy(req.adults)
     THEN same(Reply("addBooking", 400, "Tourist ID, Date, Time, and Adults are required"))
     ELSE IF BothSources(req)
     THEN same(Reply("addBooking", 400, "Cannot specify both providerId and productType"))
     ELSE IF req.providerId # "" /\ ~IsValid(req.providerId)
     THEN same(Reply("addBooking", 400, "Invalid Provider ID"))
     ELSE IF ~IsValid(req.touristId)
     THEN same(Reply("addBooking", 400, "Invalid Tourist ID"))
     ELSE IF FindById(tourists, req.touristId) = {}
     THEN same(Reply("addBooking", 404, "Tourist not found"))
     ELSE IF req.providerId # ""
     THEN ProviderBranch(req)
     ELSE IF req.productType # ""
     THEN ProductBranch(req)
     ELSE NoSourceBranch(req)

AddBooking(Reqs) ==
  /\ Ready
  /\ \E header \in AuthHeaders :
    \/ Rejected(header)
    \/ /\ verifyAdmin(header).next
       /\ reqUser' = verifyAdmin(header).user
       /\ \E req \in Reqs :
            LET out == AddBookingHandler(req)
            IN /\ out.res.status = 201 => nextBooking < MaxBookings
               /\ res' = out.res
               /\ bookings' = out.bookings
               /\ nextBooking' = IF out.res.status = 201 THEN nextBooking + 1 ELSE nextBooking
               /\ UNCHANGED <<tourists, providers, nextTourist, nextProvider>>
               /\ UNCHANGED <<contacts, nextContact, boot, issued, inflight>>

(***************************************************************************)
(* PUT /admin/bookings/admin/:id/approve and DELETE /admin/bookings/admin/:id*)
(***************************************************************************)
\* an approval that confirms pending bookings only
ApprovePendingOnly(id) ==
  IF ~IsValid(id)
  THEN [res |-> Reply("approveBooking", 400, "Invalid Booking ID"), bookings |-> bookings]
  ELSE IF FindById(bookings, id) = {}
  THEN [res |-> Reply("approveBooking", 404, "Booking not found"), bookings |-> bookings]
  ELSE [res |-> Reply("approveBooking", 200, ""),
        bookings |->
          {IF d.id = id /\ d.status = "pending" THEN [d EXCEPT !.status = "confirmed"] ELSE d :
             d \in bookings}]

ApproveBookingHandler(id) ==
  IF ~IsValid(id)
  THEN [res |-> Reply("approveBooking", 400, "Invalid Booking ID"), bookings |-> bookings]
  ELSE IF FindById(bookings, id) = {}
  THEN [res |-> Reply("approveBooking", 404, "Booking not found"), bookings |-> bookings]
  ELSE [res |-> Reply("approveBooking", 200, ""),
        bookings |->
          {IF d.id = id THEN [d EXCEPT !.status = "confirmed"] ELSE d : d \in bookings}]

ApproveBooking(Ids) ==
  /\ Ready
  /\ \E header \in AuthHeaders :
    \/ Rejected(header)
    \/ /\ verifyAdmin(header).next
       /\ reqUser' = verifyAdmin(header).user
       /\ \E id \in Ids :
            LET out == ApproveBookingHandler(id)
            IN /\ res' = out.res
               /\ bookings' = out.bookings
               /\ UNCHANGED <<tourists, providers, nextTourist, nextProvider, nextBooking>>
               /\ UNCHANGED <<contacts, nextContact, boot, issued, inflight>>

DeleteBookingHandler(id) ==
  IF ~IsValid(id)
  THEN [res |-> Reply("deleteBooking", 400, "Invalid Booking ID"), bookings |-> bookings]
  ELSE IF FindById(bookings, id) = {}
  THEN [res |-> Reply("deleteBooking", 404, "Booking not found"), bookings |-> bookings]
  ELSE [res |-> Reply("deleteBooking", 200, ""), bookings |-> {d \in bookings : d.id # id}]

DeleteBooking(Ids) ==
  /\ Ready
  /\ \E header \in AuthHeaders :
    \/ Rejected(header)
    \/ /\ verifyAdmin(header).next
       /\ reqUser' = verifyAdmin(header).user
       /\ \E id \in Ids :
            LET out == DeleteBookingHandler(id)
            IN /\ res' = out.res
               /\ bookings' = out.bookings
               /\ UNCHANGED <<tourists, providers, nextTourist, nextProvider, nextBooking>>
               /\ UNCHANGED <<contacts, nextContact, boot, issued, inflight>>

(***************************************************************************)
(* POST /api/contact (public) and DELETE /admin/contact-messages/:id       *)
(***************************************************************************)
ContactDoc(id, req) == [id |-> id, name |-> req.name, email |-> req.email, message |-> req.message]

SubmitContactHandler(req) ==
  IF req.name = "" \/ req.email = "" \/ req.message = ""
  THEN [res |-> Reply("submitContact", 400, "All fields are required"), contacts |-> contacts]
  ELSE [res |-> Reply("submitContact", 201, ""),
        contacts |-> contacts \cup {ContactDoc(ContactId(nextContact + 1), req)}]

SubmitContact(Reqs) ==
  /\ Ready
  /\ \E req \in Reqs :
       LET out == SubmitContactHandler(req)
       IN /\ out.res.status = 201 => nextContact < MaxContacts
          /\ res' = out.res
          /\ contacts' = out.contacts
          /\ nextContact' = IF out.res.status = 201 THEN nextContact + 1 ELSE nextContact
          /\ UNCHANGED <<tourists, providers, bookings, nextTourist, nextProvider, nextBooking>>
          /\ UNCHANGED <<reqUser, boot, issued, inflight>>

DeleteContactHandler(id) ==
  IF ~IsValid(id)
  THEN [res |-> Reply("deleteContact", 400, "Invalid Contact Message ID"), contacts |-> contacts]
  ELSE IF FindById(contacts, id) = {}
  THEN [res |-> Reply("deleteContact", 404, "Contact message not found"), contacts |-> contacts]
  ELSE [res |-> Reply("deleteContact", 200, ""), contacts |-> {d \in contacts : d.id # id}]

DeleteContact(Ids) ==
  /\ Ready
  /\ \E header \in AuthHeaders :
    \/ Rejected(header)
    \/ /\ verifyAdmin(header).next
       /\ reqUser' = verifyAdmin(header).user
       /\ \E id \in Ids :
            LET out == DeleteContactHandler(id)
            IN /\ res' = out.res
               /\ contacts' = out.contacts
               /\ UNCHANGED <<tourists, providers, bookings, nextTourist, nextProvider>>
               /\ UNCHANGED <<nextBooking, nextContact, boot, issued, inflight>>

(***************************************************************************)
(* Request bodies.                                                         *)
(***************************************************************************)
LoginBody(email, password, role) == [email |-> email, password |-> password, role |-> role]

TouristBody(email, password) ==
  [fullName |-> "Ann Perera", email |-> email, password |-> password, country |-> "LK"]

Files(multipart, profilePicture, photos) ==
  [multipart |-> multipart, profilePicture |-> profilePicture, photos |-> photos]

TwoFiles == Files(TRUE, "me.png", <<"jeep.jpg">>)

NoFiles == Files(TRUE, "", <<>>)

ProviderBody(email, password, price, files) ==
  [serviceName |-> "Yala Jeeps", fullName |-> "Sunil Silva", email |-> email,
   contact |-> "0771234567", category |-> "Jeep Safari", location |-> "Yala",
   price |-> price, description |-> "Half-day safari", password |-> password,
   files |-> files]

TouristUpdate(email, password) == [email |-> email, password |-> password]

ProviderUpdate(email, password, price, approved, files) ==
  [email |-> email, password |-> password, price |-> price, approved |-> approved,
   files |-> files]

BookingBody(touristId, providerId, productType, date, time, adults, children, status, totalPrice) ==
  [touristId |-> touristId, providerId |-> providerId, productType |-> productType,
   date |-> date, time |-> time, adults |-> adults, children |-> children,
   status |-> status, totalPrice |-> totalPrice, specialNotes |-> ""]

Emails == {"ann@x.io", "bob@x.io"}

TouristIds == {TouristId(k) : k \in 1..MaxTourists}

ProviderIds == {ProviderId(k) : k \in 1..MaxProviders}

BookingIds == {BookingId(k) : k \in 1..MaxBookings}

ContactIds == {ContactId(k) : k \in 1..MaxContacts}

ContactBody(name, email, message) == [name |-> name, email |-> email, message |-> message]

(***************************************************************************)
(* The requests the specification Spec sends.                              *)
(***************************************************************************)
Logins ==
  {LoginBody("ann@x.io", "secret1", "provider"), LoginBody("admin", "admin-secret", "admin")}

TouristBodies == {TouristBody("ann@x.io", "secret1")}

ProviderSignups == {ProviderBody("ann@x.io", "secret1", Str("20"), TwoFiles)}

ProviderAdds == {ProviderBody("ann@x.io", "hunter22", Str("9.8"), TwoFiles)}

TouristUpdates == {TouristUpdate(Undefined, Str("hunter22"))}

ProviderUpdates == {ProviderUpdate(Undefined, Undefined, Str("9.8"), "", NoFiles)}

WithNotes(req, notes) == [req EXCEPT !.specialNotes = notes]

SentPrice == "the body sends totalPrice 1"

Day == "2025-08-01"

Hour == "09:30"

Bookings ==
  {BookingBody(t, p, "", Day, Hour, Fixed(3, 0), Fixed(2, 0), "", Undefined) :
     t \in {TouristId(1), UnusedObjectId}, p \in {ProviderId(1), UnusedObjectId}}
    \cup {WithNotes(BookingBody(TouristId(1), "", "Village Tour", Day, Hour, Fixed(4, 0),
                                Undefined, "", Fixed(1, 0)),
                    SentPrice),
          BookingBody(TouristId(1), "", "Village Tour", Day, Hour, Fixed(4, 0), Fixed(2, 0),
                      "cancelled", Undefined),
          BookingBody(TouristId(1), "", "High Tea", Day, Hour, Fixed(4, 0), Undefined, "",
                      Undefined),
          BookingBody(TouristId(1), "", "Jeep Safari", Day, Hour, Fixed(21, 0), Undefined, "",
                      Undefined),
          BookingBody(TouristId(1), ProviderId(1), "Jeep Safari", Day, Hour, Fixed(3, 0),
                      Undefined, "", Undefined),
          BookingBody(TouristId(1), "", "", Day, Hour, Fixed(3, 0), Undefined, "", Undefined),
          BookingBody(UnusedObjectId, "", "", Day, Hour, Fixed(3, 0), Undefined, "", Undefined),
          BookingBody(TouristId(1), ProviderId(1), "", Day, Hour, Fixed(0, 0), Fixed(2, 0),
                      "", Undefined)}

(***************************************************************************)
(* The handlers at their await points.  A signup suspends between          *)
(* findOne({ email }) and save(); booking creation between its findById    *)
(* lookups and Booking.create.  A request that has passed its lookups is   *)
(* in flight: it holds the document it is about to write, and any other    *)
(* request may run before the write does.                                  *)
(***************************************************************************)
InFlight(k, op, doc, user) == [k |-> k, op |-> op, doc |-> doc, user |-> user]

\* the least number no request in flight carries
FreeSlot == CHOOSE k \in 1..(MaxInflight + 1) : /\ \A r \in inflight : r.k # k
                                                /\ \A j \in 1..(k - 1) : \E r \in inflight : r.k = j

\* the handler awaits its write: no response yet, the request keeps its req.user
Suspend(op, doc, user) ==
  /\ Cardinality(inflight) < MaxInflight
  /\ inflight' = inflight \cup {InFlight(FreeSlot, op, doc, user)}
  /\ res' = res

\* validation and findOne of the tourist signup: answer 400, or go on to hash and save
TouristSignupLookup(Reqs) ==
  /\ Ready
  /\ \E req \in Reqs, salt \in Salts :
       LET out == TouristSignupHandler(req, salt)
       IN /\ IF out.res.status = 201
             THEN Suspend("touristSignup", CHOOSE d \in out.tourists \ tourists : TRUE, NoToken)
             ELSE res' = out.res /\ inflight' = inflight
          /\ UNCHANGED <<tourists, providers, bookings, contacts, nextTourist, nextProvider>>
          /\ UNCHANGED <<nextBooking, nextContact, reqUser, boot, issued>>

\* tourist.save() and the response: the unique index refuses an email saved meanwhile
SaveHandler(collection, doc, id, op, role) ==
  IF DuplicateKey(collection, id, doc.email)
  THEN [res |-> ServerError(op), collection |-> collection]
  ELSE [res |-> ReplyToken(op, 201, Sign(id, role)),
        collection |-> collection \cup {[doc EXCEPT !.id = id]}]

TouristSignupSave ==
  /\ Ready
  /\ \E r \in inflight :
       LET out == SaveHandler(tourists, r.doc, TouristId(nextTourist + 1), r.op, "tourist")
       IN /\ r.op = "touristSignup"
          /\ out.res.status = 201 => nextTourist < MaxTourists
          /\ res' = out.res
          /\ tourists' = out.collection
          /\ nextTourist' = IF out.res.status = 201 THEN nextTourist + 1 ELSE nextTourist
          /\ inflight' = inflight \ {r}
          /\ UNCHANGED <<providers, bookings, contacts, nextProvider, nextBooking>>
          /\ UNCHANGED <<nextContact, reqUser, boot, issued>>

ProviderSignupLookup(Reqs) ==
  /\ Ready
  /\ \E req \in Reqs, salt \in Salts :
       LET out == ProviderSignupHandler(req, salt)
       IN /\ IF out.res.status = 201
             THEN Suspend("providerSignup", CHOOSE d \in out.providers \ providers : TRUE, NoToken)
             ELSE res' = out.res /\ inflight' = inflight
          /\ UNCHANGED <<tourists, providers, bookings, contacts, nextTourist, nextProvider>>
          /\ UNCHANGED <<nextBooking, nextContact, reqUser, boot, issued>>

ProviderSignupSave ==
  /\ Ready
  /\ \E r \in inflight :
       LET out == SaveHandler(providers, r.doc, ProviderId(nextProvider + 1), r.op, "provider")
       IN /\ r.op = "providerSignup"
          /\ out.res.status = 201 => nextProvider < MaxProviders
          /\ res' = out.res
          /\ providers' = out.collection
          /\ nextProvider' = IF out.res.status = 201 THEN nextProvider + 1 ELSE nextProvider
          /\ inflight' = inflight \ {r}
          /\ UNCHANGED <<tourists, bookings, contacts, nextTourist, nextBooking>>
          /\ UNCHANGED <<nextContact, reqUser, boot, issued>>

\* booking creation up to its last lookup: an answer, or bookingData ready for create
AddBookingLookups(Reqs) ==
  /\ Ready
  /\ \E header \in AuthHeaders :
    \/ Rejected(header)
    \/ /\ verifyAdmin(header).next
       /\ \E req \in Reqs :
            LET out == AddBookingHandler(req)
            IN /\ IF out.res.status = 201
                  THEN /\ Suspend("addBooking", CHOOSE d \in out.bookings \ bookings : TRUE,
                                  verifyAdmin(header).user)
                       /\ reqUser' = NoToken
                  ELSE /\ res' = out.res
                       /\ inflight' = inflight
                       /\ reqUser' = verifyAdmin(header).user
               /\ UNCHANGED <<tourists, providers, bookings, contacts, nextTourist>>
               /\ UNCHANGED <<nextProvider, nextBooking, nextContact, boot, issued>>

\* Booking.create(bookingData) and the response
AddBookingCreate ==
  /\ Ready
  /\ \E r \in inflight :
       /\ r.op = "addBooking"
       /\ nextBooking < MaxBookings
       /\ bookings' = bookings \cup {[r.doc EXCEPT !.id = BookingId(nextBooking + 1)]}
       /\ nextBooking' = nextBooking + 1
       /\ res' = Reply("addBooking", 201, "")
       /\ reqUser' = r.user
       /\ inflight' = inflight \ {r}
       /\ UNCHANGED <<tourists, providers, contacts, nextTourist, nextProvider>>
       /\ UNCHANGED <<nextContact, boot, issued>>

(***************************************************************************)
(* server.js: connectWithRetry(retries = 5, delay = 3000).  pc is the      *)
(* place of the function: "connect" awaits mongoose.connect in iteration   *)
(* attempt, "delay" awaits the timer, "failed" has left the loop,          *)
(* "connected" has returned and "exited" has called process.exit.          *)
(***************************************************************************)
Retries == 5

\* process.exit has not been called
NotExited == <<>>

\* await mongoose.connect(...) resolves: return
ConnectSucceeds ==
  /\ pc = "connect"
  /\ pc' = "connected"
  /\ connects' = connects + 1
  /\ UNCHANGED <<attempt, delays, exitCode>>
  /\ UNCHANGED <<tourists, providers, bookings, contacts, nextTourist, nextProvider>>
  /\ UNCHANGED <<nextBooking, nextContact, reqUser, res, inflight, issued>>

\* a catch that waits after every failure, the last one too
ConnectFailsAlwaysDelays ==
  /\ pc = "connect"
  /\ connects' = connects + 1
  /\ pc' = "delay"
  /\ UNCHANGED <<attempt, delays, exitCode>>
  /\ UNCHANGED <<tourists, providers, bookings, contacts, nextTourist, nextProvider>>
  /\ UNCHANGED <<nextBooking, nextContact, reqUser, res, inflight, issued>>

\* await mongoose.connect(...) rejects: the catch waits when i < retries - 1,
\* otherwise i++ ends the loop
ConnectFails ==
  /\ pc = "connect"
  /\ connects' = connects + 1
  /\ IF attempt < Retries - 1
     THEN pc' = "delay" /\ attempt' = attempt
     ELSE pc' = "failed" /\ attempt' = attempt + 1
  /\ UNCHANGED <<delays, exitCode>>
  /\ UNCHANGED <<tourists, providers, bookings, contacts, nextTourist, nextProvider>>
  /\ UNCHANGED <<nextBooking, nextContact, reqUser, res, inflight, issued>>

\* the timer of setTimeout(resolve, delay) fires: i++ and, if i < retries, the next attempt
Delay ==
  /\ pc = "delay"
  /\ delays' = delays + 1
  /\ attempt' = attempt + 1
  /\ pc' = IF attempt + 1 < Retries THEN "connect" ELSE "failed"
  /\ UNCHANGED <<connects, exitCode>>
  /\ UNCHANGED <<tourists, providers, bookings, contacts, nextTourist, nextProvider>>
  /\ UNCHANGED <<nextBooking, nextContact, reqUser, res, inflight, issued>>

\* process.exit(1)
Exit ==
  /\ pc = "failed"
  /\ pc' = "exited"
  /\ exitCode' = <<1>>
  /\ UNCHANGED <<attempt, connects, delays>>
  /\ UNCHANGED <<tourists, providers, bookings, contacts, nextTourist, nextProvider>>
  /\ UNCHANGED <<nextBooking, nextContact, reqUser, res, inflight, issued>>

(***************************************************************************)
(* The specification: the connection is up, the database is empty, then    *)
(* requests one at a time.                                                 *)
(***************************************************************************)
Init ==
  /\ tourists = {}
  /\ providers = {}
  /\ bookings = {}
  /\ nextTourist = 0
  /\ nextProvider = 0
  /\ nextBooking = 0
  /\ contacts = {}
  /\ nextContact = 0
  /\ reqUser = NoToken
  /\ res = NoResponse
  /\ pc = "connected"
  /\ attempt = 0
  /\ connects = 1
  /\ delays = 0
  /\ exitCode = NotExited
  /\ inflight = {}
  /\ issued = {}

Next ==
  \/ Login(Logins)
  \/ TouristSignup(TouristBodies)
  \/ ProviderSignup(ProviderSignups)
  \/ AddProvider(ProviderAdds)
  \/ UpdateProvider(ProviderIds \cup {MalformedId}, ProviderUpdates)
  \/ DeleteProvider(ProviderIds \cup {MalformedId})
  \/ ApproveProvider(ProviderIds \cup {MalformedId})
  \/ AddTourist(TouristBodies)
  \/ UpdateTourist(TouristIds \cup {MalformedId}, TouristUpdates)
  \/ DeleteTourist(TouristIds \cup {MalformedId})
  \/ AddBooking(Bookings)
  \/ ApproveBooking(BookingIds \cup {MalformedId})
  \/ DeleteBooking(BookingIds \cup {MalformedId})
  \/ Send

Spec == Init /\ [][Next]_vars

(***************************************************************************)
(* SpecAuth: the same routes, driven by the account requests: two emails   *)
(* in the provider collection, two passwords, one booking request.         *)
(***************************************************************************)
AuthLogins ==
  {LoginBody("ann@x.io", "secret1", "provider"), LoginBody("ann@x.io", "secret1", "tourist")}

AuthProviderSignups ==
  {ProviderBody(e, "secret1", Str("20"), TwoFiles) : e \in Emails}
    \cup {ProviderBody("bob@x.io", "secret1", Str("20"), Files(TRUE, "notes.pdf", <<"jeep.jpg">>))}

AuthProviderAdds == {ProviderBody(e, "hunter22", Str("9.8"), TwoFiles) : e \in Emails}

AuthTouristUpdates == {TouristUpdate(Str("bob@x.io"), Undefined)}

AuthProviderUpdates ==
  {ProviderUpdate(Str(e), Undefined, Undefined, "", NoFiles) : e \in Emails}

AuthBookings ==
  {BookingBody(TouristId(1), "", "Jeep Safari", Day, Hour, Fixed(3, 0), Undefined, "",
               Undefined)}

NextAuth ==
  \/ Login(AuthLogins)
  \/ TouristSignup(TouristBodies)
  \/ ProviderSignup(AuthProviderSignups)
  \/ AddProvider(AuthProviderAdds)
  \/ UpdateProvider(ProviderIds, AuthProviderUpdates)
  \/ DeleteProvider(ProviderIds)
  \/ ApproveProvider(ProviderIds)
  \/ AddTourist(TouristBodies)
  \/ UpdateTourist(TouristIds, AuthTouristUpdates)
  \/ DeleteTourist(TouristIds)
  \/ AddBooking(AuthBookings)
  \/ ApproveBooking(BookingIds)
  \/ DeleteBooking(BookingIds)
  \/ Send

SpecAuth == Init /\ [][NextAuth]_vars

(***************************************************************************)
(* SpecAdmin: every route, the contact messages included, with ids that    *)
(* are malformed, unknown and known, and one request body per route.       *)
(***************************************************************************)
ContactBodies ==
  {ContactBody("Ann Perera", "ann@x.io", "Is the safari open in May?"),
   ContactBody("Ann Perera", "ann@x.io", "")}

AdminLogins == {LoginBody("admin", "admin-secret", "admin")}

OtherIds == {MalformedId, UnusedObjectId}

NextAdmin ==
  \/ Login(AdminLogins)
  \/ TouristSignup(TouristBodies)
  \/ ProviderSignup(ProviderSignups)
  \/ AddProvider(ProviderAdds)
  \/ UpdateProvider(ProviderIds \cup OtherIds, ProviderUpdates)
  \/ DeleteProvider(ProviderIds \cup OtherIds)
  \/ ApproveProvider(ProviderIds \cup OtherIds)
  \/ AddTourist(TouristBodies)
  \/ UpdateTourist(TouristIds \cup OtherIds, TouristUpdates)
  \/ DeleteTourist(TouristIds \cup OtherIds)
  \/ AddBooking(AuthBookings)
  \/ ApproveBooking(BookingIds \cup OtherIds)
  \/ DeleteBooking(BookingIds \cup OtherIds)
  \/ SubmitContact(ContactBodies)
  \/ DeleteContact(ContactIds \cup OtherIds)
  \/ Send

SpecAdmin == Init /\ [][NextAdmin]_vars

(***************************************************************************)
(* SpecBoot: the process from its start: connectWithRetry() runs, and the  *)
(* account routes answer once the connection is up.  mongoose.connect      *)
(* settles (serverSelectionTimeoutMS), the timer fires and process.exit    *)
(* runs, hence the fairness conditions.                                    *)
(***************************************************************************)
InitBoot ==
  /\ tourists = {}
  /\ providers = {}
  /\ bookings = {}
  /\ nextTourist = 0
  /\ nextProvider = 0
  /\ nextBooking = 0
  /\ contacts = {}
  /\ nextContact = 0
  /\ reqUser = NoToken
  /\ res = NoResponse
  /\ pc = "connect"
  /\ attempt = 0
  /\ connects = 0
  /\ delays = 0
  /\ exitCode = NotExited
  /\ inflight = {}
  /\ issued = {}

NextBoot ==
  \/ ConnectSucceeds
  \/ ConnectFails
  \/ Delay
  \/ Exit
  \/ Login(AuthLogins)
  \/ TouristSignup(TouristBodies)
  \/ ProviderSignup(AuthProviderSignups)
  \/ DeleteTourist(TouristIds)
  \/ Send

SpecBoot ==
  /\ InitBoot
  /\ [][NextBoot]_vars
  /\ WF_vars(ConnectSucceeds \/ ConnectFails)
  /\ WF_vars(Delay)
  /\ WF_vars(Exit)

(***************************************************************************)
(* SpecRace: signups and booking creation taken at their await points,     *)
(* with the two delete routes running between a lookup and its write.      *)
(***************************************************************************)
RaceTourists == {TouristBody("ann@x.io", "secret1")}

RaceProviders == {ProviderBody("ann@x.io", "secret1", Str("20"), TwoFiles)}

RaceBookings ==
  {BookingBody(TouristId(1), ProviderId(1), "", Day, Hour, Fixed(3, 0), Undefined, "", Undefined),
   BookingBody(TouristId(1), "", "Jeep Safari", Day, Hour, Fixed(3, 0), Undefined, "", Undefined)}

NextRace ==
  \/ TouristSignupLookup(RaceTourists)
  \/ TouristSignupSave
  \/ ProviderSignupLookup(RaceProviders)
  \/ ProviderSignupSave
  \/ AddBookingLookups(RaceBookings)
  \/ AddBookingCreate
  \/ DeleteTourist(TouristIds)
  \/ DeleteProvider(ProviderIds)
  \/ Send

SpecRace == Init /\ [][NextRace]_vars

(***************************************************************************)
(* SpecTokens: the tokens the server has sent are kept, and a request to   *)
(* an admin route carries a token only if the server has issued it.        *)
(***************************************************************************)
TokenLogins ==
  {LoginBody("admin", "admin-secret", "admin"), LoginBody("admin", "hunter22", "admin"),
   LoginBody("ann@x.io", "secret1", "admin"), LoginBody("ann@x.io", "secret1", "tourist"),
   LoginBody("ann@x.io", "secret1", "provider")}

\* the verified token of the request, if it has one, is a token the server has issued
Presented == reqUser' = NoToken \/ \E i \in issued : i.token = reqUser'

AddTouristPresented == AddTourist(TouristBodies) /\ Presented

DeleteTouristPresented == DeleteTourist(TouristIds) /\ Presented

ApproveProviderPresented == ApproveProvider(ProviderIds) /\ Presented

AddBookingPresented == AddBooking(AuthBookings) /\ Presented

NextTokens ==
  \/ Login(TokenLogins)
  \/ TouristSignup(TouristBodies)
  \/ ProviderSignup(ProviderSignups)
  \/ AddTouristPresented
  \/ DeleteTouristPresented
  \/ ApproveProviderPresented
  \/ AddBookingPresented
  \/ Deliver

SpecTokens == Init /\ [][NextTokens]_vars

(***************************************************************************)
(* The request bodies the properties of POST /admin/bookings/admin range   *)
(* over: in every state where the server waits for a request, each of      *)
(* them is put to the handler.                                             *)
(***************************************************************************)
AdultsInputs ==
  {Undefined, Fixed(0, 0), Fixed(1, 0), Fixed(3, 0), Fixed(4, 0), Fixed(6, 0), Fixed(11, 0),
   Fixed(21, 0), Fixed(51, 0), Fixed(-1, 0), Str("2"), Str("abc")}

ChildrenInputs == {Undefined, Fixed(1, 0), Fixed(2, 0)}

ClientPrices == {Fixed(1, 0), Str("20")}

ProductInputs == DOMAIN PRICING_STRUCTURE \cup {"Elephant Ride"}

ProviderRequests ==
  {BookingBody(TouristId(1), p, "", Day, Hour, a, c, "", Undefined) :
     p \in ProviderIds, a \in AdultsInputs, c \in ChildrenInputs}

ProductRequests ==
  {BookingBody(TouristId(1), "", product, Day, Hour, a, c, "", Undefined) :
     product \in ProductInputs, a \in AdultsInputs, c \in ChildrenInputs}

SourceRequests ==
  {BookingBody(t, p, product, d, h, a, Undefined, "", Undefined) :
     t \in {"", MalformedId, TouristId(1), UnusedObjectId},
     p \in {"", MalformedId, ProviderId(1), UnusedObjectId},
     product \in {"", "Jeep Safari"}, d \in {"", Day}, h \in {"", Hour},
     a \in {Undefined, Fixed(3, 0)}}

\* bodies that differ in the pricing source and the counts, to vary totalPrice on
PricedRequests ==
  {BookingBody(TouristId(1), p, product, Day, Hour, a, c, "", Undefined) :
     p \in {"", ProviderId(1)},
     product \in {"", "Village Tour", "Jeep Safari", "High Tea", "Elephant Ride"},
     a \in {Undefined, Fixed(0, 0), Fixed(3, 0), Fixed(21, 0), Str("2")},
     c \in {Undefined, Fixed(2, 0)}}

\* a count sent as a JSON number; children may be left out of the body
IsCount(v) == v.t = "number" /\ v # NaN

CountOf(v) == IF v = Undefined THEN 0 ELSE v.n

\* the request gets past the checks that precede the pricing source
ReachesPricing(req) ==
  /\ req.touristId # "" /\ req.date # "" /\ req.time # "" /\ Truthy(req.adults)
  /\ \E t \in tourists : t.id = req.touristId

\* the documents a handler outcome adds to the collection
Added(out) == out.bookings \ bookings

(***************************************************************************)
(* C1: every booking created with a providerId that resolves to a provider *)
(* of price P, for A adults and C children (0 when children is left out),  *)
(* is persisted with totalPrice = P * (A + 0.5 * C).                       *)
(***************************************************************************)
ProviderPriceIsHalfForChildren ==
  Ready =>
    \A req \in ProviderRequests \cup SourceRequests :
      LET out == AddBookingHandler(req)
      IN (/\ out.res.status = 201
          /\ req.providerId # ""
          /\ IsCount(req.adults)
          /\ req.children = Undefined \/ IsCount(req.children)) =>
           \E p \in providers :
             /\ p.id = req.providerId
             /\ \E b \in Added(out) :
                  /\ out.bookings = bookings \cup {b}
                  /\ b.providerId = p.id
                  /\ b.totalPrice * 200 = p.price * (2 * req.adults.n + CountOf(req.children))

\* the example of the pricing section: price 20, 3 adults and 2 children cost 80
ProviderBookingPersisted ==
  /\ res = Reply("addBooking", 201, "")
  /\ \E b \in bookings : \E p \in providers :
       /\ b.providerId = p.id /\ p.price = 2000
       /\ b.adults = 300 /\ b.children = 200 /\ b.totalPrice = 8000

(***************************************************************************)
(* C2: a request that reaches the pricing step with a productType that has *)
(* a tier list and N = adults + children persons is persisted with         *)
(* totalPrice = N * p, p the price of the first band in list order that    *)
(* holds N; when no band of the product holds N the answer is 400 and      *)
(* nothing is persisted.                                                   *)
(***************************************************************************)
HasTierList(productType) ==
  productType \in DOMAIN PRICING_STRUCTURE /\ ~PRICING_STRUCTURE[productType].null

InBand(n, band) == band.min <= n /\ (band.max = Infinity \/ n <= band.max)

TwoOrNoSources(req) == (req.providerId # "") = (req.productType # "")

SourceCountAlways400 ==
  Ready =>
    \A req \in SourceRequests :
      TwoOrNoSources(req) =>
        LET out == AddBookingHandler(req)
        IN out.res.status = 400 /\ out.bookings = bookings

(***************************************************************************)
(* C3 amended: such a request always fails and persists nothing; the       *)
(* answer is 400, except for a request with neither source, all required   *)
(* fields and a well-formed touristId that resolves to no tourist, which   *)
(* is answered 404 by the tourist lookup that precedes the check.          *)
(***************************************************************************)
NoSourceTouristMissing(req) ==
  /\ req.providerId = "" /\ req.productType = ""
  /\ req.touristId # "" /\ req.date # "" /\ req.time # "" /\ Truthy(req.adults)
  /\ IsValid(req.touristId)
  /\ \A t \in tourists : t.id # req.touristId

SourceCountRejected ==
  Ready =>
    \A req \in SourceRequests :
      TwoOrNoSources(req) =>
        LET out == AddBookingHandler(req)
        IN /\ out.bookings = bookings
           /\ out.res.status = IF NoSourceTouristMissing(req) THEN 404 ELSE 400

SourceCountAnswered ==
  /\ res \in {Reply("addBooking", 400, "Cannot specify both providerId and productType"),
              Reply("addBooking", 400, "Either providerId or productType is required")}
  /\ tourists # {}

(***************************************************************************)
(* C4: every persisted booking has exactly one of providerId and           *)
(* productType set.                                                        *)
(***************************************************************************)
ExactlyOneSource ==
  \A b \in bookings : (b.providerId # "") # (b.productType # "")

BookingOfEachSource ==
  /\ res.op = "approveBooking" /\ res.status = 200
  /\ \E b \in bookings : b.productType # "" /\ b.providerId = ""

(***************************************************************************)
(* C5: the outcome of a booking request, the persisted totalPrice          *)
(* included, is the same whatever totalPrice the request body carries.     *)
(***************************************************************************)
ClientPriceIgnored ==
  Ready =>
    \A req \in PricedRequests : \A price \in ClientPrices :
      AddBookingHandler([req EXCEPT !.totalPrice = price]) = AddBookingHandler(req)

\* a booking whose body carried totalPrice 1 is stored with the computed price
ClientPriceOverridden ==
  /\ res = Reply("addBooking", 201, "")
  /\ \E b \in bookings : b.specialNotes = SentPrice /\ b.totalPrice = 7960

BookedProviderApproved ==
  Ready =>
    \A req \in ProviderRequests :
      (AddBookingHandler(req).res.status = 201 /\ req.providerId # "") =>
        \A p \in providers : p.id = req.providerId => p.approved

(***************************************************************************)
(* The passwords and signup bodies the account properties range over.  The *)
(* two long passwords are 73 characters and differ in the last one only.   *)
(***************************************************************************)
SeventyTwo == "0123456789abcdefghijklmnopqrstuvwxyz0123456789abcdefghijklmnopqrstuvwxyz"

Passwords == {"secret1", "hunter22", "Secret1", SeventyTwo \o "A", SeventyTwo \o "B"}

SignupEmails == Emails \cup {"cara@x.io"}

TouristSignupBodies == {TouristBody(e, pw) : e \in SignupEmails, pw \in Passwords}

ProviderSignupBodies ==
  {ProviderBody(e, pw, Str("20"), TwoFiles) : e \in SignupEmails, pw \in Passwords}

\* the stored password value is the plaintext p itself
IsPlaintext(stored, p) == ~stored.hashed /\ stored.key = p

(***************************************************************************)
(* C7: while a provider's approved flag is false every provider login with *)
(* its email fails and issues no token, with 403 when the password is the  *)
(* right one; once PUT /admin/providers/:id/approve has run on it, and     *)
(* whenever the flag is true, the right password gets 200 and a token for  *)
(* that provider.                                                          *)
(***************************************************************************)
LoggedIn(p) == ReplyToken("login", 200, Sign(p.id, "provider"))

ApprovalGatesProviderLogin ==
  Ready =>
    \A p \in providers : \A pw \in Passwords :
      LET req == LoginBody(p.email, pw, "provider")
          approval == ApproveProviderHandler(p.id)
      IN /\ ~p.approved =>
              \A r \in LoginResponses(req) :
                /\ r.status # 200 /\ r.token = NoToken
                /\ Compare(pw, p.password) =>
                     r = Reply("login", 403, "Provider not approved yet")
         /\ (p.approved /\ Compare(pw, p.password)) => LoginResponses(req) = {LoggedIn(p)}
         /\ approval.res.status = 200
         /\ Compare(pw, p.password) =>
              LoginResponsesIn(tourists, approval.providers, req) = {LoggedIn(p)}

\* a provider that signed up has logged in after its approval
ProviderLoggedIn ==
  /\ res = ReplyToken("login", 200, Sign(ProviderId(1), "provider"))
  /\ \E p \in providers : p.id = ProviderId(1) /\ p.approved /\ Compare("secret1", p.password)

(***************************************************************************)
(* C9: after any sequence of signups, admin additions, admin updates and   *)
(* deletions run one at a time, no two tourists share an email and no two  *)
(* providers share an email.                                               *)
(***************************************************************************)
EmailsUnique ==
  /\ \A a, b \in tourists : a.email = b.email => a = b
  /\ \A a, b \in providers : a.email = b.email => a = b

\* the update of a tourist's email to the email of the other tourist has been refused
TakenEmailRefused ==
  /\ res = ServerError("updateTourist")
  /\ Cardinality(tourists) = 2

(***************************************************************************)
(* C10 as stated: after a successful tourist or provider signup with       *)
(* password p the stored password differs from p, a login for the account  *)
(* with p succeeds, and a login with any other password fails.             *)
(***************************************************************************)
SignedUp(role, req, salt) ==
  IF role = "tourist"
  THEN LET out == TouristSignupHandler(req, salt)
       IN [ok |-> out.res.status = 201, tourists |-> out.tourists, providers |-> providers,
           new |-> out.tourists \ tourists]
  ELSE LET out == ProviderSignupHandler(req, salt)
       IN [ok |-> out.res.status = 201, tourists |-> tourists, providers |-> out.providers,
           new |-> out.providers \ providers]

SignupBodies(role) == IF role = "tourist" THEN TouristSignupBodies ELSE ProviderSignupBodies

LoginAfter(after, role, email, pw) ==
  LoginResponsesIn(after.tourists, after.providers, LoginBody(email, pw, role))

SignupThenLoginSucceeds ==
  Ready =>
    \A role \in {"tourist", "provider"} : \A req \in SignupBodies(role) : \A salt \in Salts :
      LET after == SignedUp(role, req, salt)
      IN after.ok =>
           /\ \A d \in after.new : ~IsPlaintext(d.password, req.password)
           /\ \A pw \in Passwords : \A r \in LoginAfter(after, role, req.email, pw) :
                (r.status = 200) <=> (pw = req.password)

(***************************************************************************)
(* C10 amended: the stored password is a digest and not p; a login for the *)
(* account with p passes the password check, which gives a tourist 200 and *)
(* a token and gives a provider, not yet approved, 403; a login with a     *)
(* password that differs from p within its first 72 bytes is answered 400. *)
(***************************************************************************)
SignupThenPasswordChecked ==
  Ready =>
    \A role \in {"tourist", "provider"} : \A req \in SignupBodies(role) : \A salt \in Salts :
      LET after == SignedUp(role, req, salt)
      IN after.ok =>
           /\ \A d \in after.new : ~IsPlaintext(d.password, req.password)
           /\ \A d \in after.new :
                LoginAfter(after, role, req.email, req.password)
                  = {IF role = "tourist"
                     THEN ReplyToken("login", 200, Sign(d.id, "tourist"))
                     ELSE Reply("login", 403, "Provider not approved yet")}
           /\ \A pw \in Passwords :
                Truncate(pw) # Truncate(req.password) =>
                  LoginAfter(after, role, req.email, pw)
                    = {Reply("login", 400, "Invalid credentials")}

\* a provider that signed up with secret1 and awaits approval has tried to log in
SignedUpProviderRefused ==
  /\ res = Reply("login", 403, "Provider not approved yet")
  /\ \E p \in providers :
       p.email = "ann@x.io" /\ ~p.approved /\ p.password = Hash("secret1", "salt1")

(***************************************************************************)
(* The Authorization headers the properties of the middleware range over.  *)
(***************************************************************************)
HeaderInputs ==
  {Header(kind, id, role) :
     kind \in {"none", "basic", "bearer-invalid", "bearer-expired", "bearer"},
     id \in {"a1", "t1"}, role \in ValidRoles \cup {""}}

(***************************************************************************)
(* C11: the middleware has four outcomes: no header or no Bearer scheme,   *)
(* 401; a token that fails verification, 401 with "Token expired" for an   *)
(* expiry and "Invalid token" otherwise; a valid token of another role,    *)
(* 403; a valid admin token, the decoded identity attached and next()      *)
(* called.  A rejected request carries the middleware's response and no    *)
(* identity: the handler has not run.                                      *)
(***************************************************************************)
MiddlewareOutcome(header) ==
  IF header.kind \in {"none", "basic"}
  THEN Reply("verifyAdmin", 401, "No valid Bearer token provided")
  ELSE IF header.kind = "bearer-expired"
  THEN Reply("verifyAdmin", 401, "Token expired")
  ELSE IF header.kind = "bearer-invalid"
  THEN Reply("verifyAdmin", 401, "Invalid token")
  ELSE IF header.role # "admin"
  THEN Reply("verifyAdmin", 403, "Not authorized: Admin only")
  ELSE NoResponse

FourMiddlewareOutcomes ==
  /\ \A header \in HeaderInputs :
       LET out == verifyAdmin(header)
       IN /\ out.res = MiddlewareOutcome(header)
          /\ out.next <=> (header.kind = "bearer" /\ header.role = "admin")
          /\ out.next => out.user = Sign(header.id, "admin")
          /\ ~out.next => out.user = NoToken /\ out.res.status \in {401, 403}
  /\ res.op = "verifyAdmin" =>
       /\ reqUser = NoToken
       /\ \E header \in AuthHeaders : ~verifyAdmin(header).next /\ res = MiddlewareOutcome(header)
  /\ reqUser # NoToken => reqUser.role = "admin" /\ res.op # "verifyAdmin"

\* an expired admin token has been turned away with its own reason
ExpiredTokenRejected ==
  /\ res = Reply("verifyAdmin", 401, "Token expired")
  /\ tourists # {}

(***************************************************************************)
(* C12: a step that changes a tourist, provider, booking or contact        *)
(* message through an admin route is the step of a request that carries a  *)
(* valid admin token; a request the middleware rejects changes none of the *)
(* four collections.                                                       *)
(***************************************************************************)
Stored == <<tourists, providers, bookings, contacts>>

PublicOps == {"login", "touristSignup", "providerSignup", "submitContact"}

AdminOps ==
  {"addProvider", "updateProvider", "deleteProvider", "approveProvider", "addTourist",
   "updateTourist", "deleteTourist", "addBooking", "approveBooking", "deleteBooking",
   "deleteContact"}

OnlyAdminTokensMutate ==
  [][/\ res'.op = "verifyAdmin" => Stored' = Stored
     /\ res'.op \in AdminOps => reqUser' = Sign("a1", "admin")
     /\ Stored' # Stored => res'.op \in PublicOps \cup AdminOps]_vars

\* a token of role tourist has been refused while all four collections hold documents
NonAdminTokenRefused ==
  /\ res = Reply("verifyAdmin", 403, "Not authorized: Admin only")
  /\ tourists # {} /\ providers # {} /\ bookings # {} /\ contacts # {}

(***************************************************************************)
(* C13: booking creation answers with the status of the first violated     *)
(* check, in the order (1) touristId, date, time or adults missing, 400;   *)
(* (2) both sources, 400; (3) providerId malformed, 400; (4) touristId     *)
(* malformed, 400, or unknown, 404; (5) provider unknown, 404, productType *)
(* without a tier list, 400, no band for the party, 400, no source, 400;   *)
(* and a request that violates a check persists nothing.                   *)
(***************************************************************************)
OrderRequests ==
  {BookingBody(t, p, product, d, Hour, a, Undefined, "", Undefined) :
     t \in {"", MalformedId, TouristId(1), UnusedObjectId},
     p \in {"", MalformedId, ProviderId(1), UnusedObjectId},
     product \in {"", "Jeep Safari", "High Tea", "Elephant Ride", "constructor"},
     d \in {"", Day}, a \in {Undefined, Fixed(3, 0), Fixed(21, 0)}}

\* the status the order of checks gives a request, 0 when it violates none of them
FirstViolation(req) ==
  LET n == req.adults.n + CountOf(req.children)
  IN IF req.touristId = "" \/ req.date = "" \/ req.time = "" \/ req.adults = Undefined
     THEN 400
     ELSE IF req.providerId # "" /\ req.productType # ""
     THEN 400
     ELSE IF req.providerId # "" /\ req.providerId \notin ObjectIds
     THEN 400
     ELSE IF req.touristId \notin ObjectIds
     THEN 400
     ELSE IF \A t \in tourists : t.id # req.touristId
     THEN 404
     ELSE IF req.providerId # ""
     THEN IF \A q \in providers : q.id # req.providerId THEN 404 ELSE 0
     ELSE IF req.productType = ""
     THEN 400
     ELSE IF ~HasTierList(req.productType)
     THEN 400
     ELSE IF \A i \in DOMAIN PRICING_STRUCTURE[req.productType].tiers :
               ~InBand(n, PRICING_STRUCTURE[req.productType].tiers[i])
     THEN 400
     ELSE 0

FirstViolatedCheckAnswers ==
  Ready =>
    \A req \in OrderRequests :
      FirstViolation(req) # 0 =>
        LET out == AddBookingHandler(req)
        IN out.res.status = FirstViolation(req) /\ out.bookings = bookings

(***************************************************************************)
(* C14: a login whose credentials are bad, because no account of the role  *)
(* has the email or username, or because the password does not match the   *)
(* stored hash, is answered 401.                                           *)
(***************************************************************************)
CredentialRequests ==
  {LoginBody(e, pw, r) : e \in SignupEmails \cup {"admin"}, pw \in Passwords \cup {"admin-secret"},
                         r \in ValidRoles}

\* no account of the role has the email, or the password differs from the one found
BadCredentials(req) ==
  \/ LoginLookup(tourists, providers, req) = {}
  \/ \E user \in LoginLookup(tourists, providers, req) : ~Compare(req.password, user.password)

BadCredentialsAnswered401 ==
  Ready =>
    \A req \in CredentialRequests :
      BadCredentials(req) => \A r \in LoginResponses(req) : r.status = 401

(***************************************************************************)
(* C15: a tourist or provider signup with a required field missing, an     *)
(* email not of the form local@domain.tld, a password shorter than 6, for  *)
(* providers a price that is not a positive number or a missing profile    *)
(* picture or photo, or an email already in that collection, is answered   *)
(* 400, persists no account and carries no token; every other signup       *)
(* persists exactly one new account and is answered 201 with a token of    *)
(* that account's id and role.                                             *)
(***************************************************************************)
SignupRoles == {"tourist", "provider"}

ShapedEmails == {"", "ann@x.io", "cara@x.io", "ann@x", "ann.x.io", "a b@x.io", "@x.io", "ann@x."}

ValidationBodies(role) ==
  IF role = "tourist"
  THEN {TouristBody(e, pw) : e \in ShapedEmails, pw \in {"", "12345", "secret1"}}
         \cup {[TouristBody(e, "secret1") EXCEPT !.fullName = f, !.country = c] :
                 e \in {"ann@x.io", "cara@x.io"}, f \in {"", "Ann Perera"}, c \in {"", "LK"}}
  ELSE {ProviderBody(e, pw, price, TwoFiles) :
          e \in {"ann@x.io", "cara@x.io", "ann@x"}, pw \in {"12345", "secret1"},
          price \in {Undefined, Str("20"), Str("0"), Str("-5"), Str("abc")}}
         \cup {[ProviderBody(e, "secret1", Str("20"), files) EXCEPT !.description = d] :
                 e \in {"ann@x.io", "cara@x.io"},
                 files \in {TwoFiles, NoFiles, Files(TRUE, "me.png", <<>>),
                            Files(TRUE, "", <<"jeep.jpg">>), Files(FALSE, "", <<>>)},
                 d \in {"", "Half-day safari"}}

\* local@domain.tld: one "@", no space, a dot after the "@" with text on both sides of it
HasEmailShape(email) ==
  \E a \in 2..Len(email), d \in 1..(Len(email) - 1) :
    /\ a + 1 < d
    /\ SubSeq(email, d, d) = "."
    /\ \A i \in 1..Len(email) :
         /\ SubSeq(email, i, i) # " "
         /\ SubSeq(email, i, i) = "@" <=> i = a

\* the request fails one of the validations the claim lists
FailsValidation(role, req) ==
  \/ req.email = "" \/ req.password = "" \/ req.fullName = ""
  \/ ~HasEmailShape(req.email)
  \/ Len(req.password) < 6
  \/ /\ role = "tourist"
     /\ \/ req.country = ""
        \/ \E t \in tourists : t.email = req.email
  \/ /\ role = "provider"
     /\ \/ req.description = "" \/ req.price = Undefined
        \/ IsNaN(Number(req.price)) \/ Number(req.price).n <= 0
        \/ ~req.files.multipart \/ req.files.profilePicture = "" \/ req.files.photos = <<>>
        \/ \E q \in providers : q.email = req.email

SignupValidated ==
  Ready =>
    \A role \in SignupRoles :
      \A req \in ValidationBodies(role), salt \in Salts :
        LET before == IF role = "tourist" THEN tourists ELSE providers
            out == IF role = "tourist" THEN TouristSignupHandler(req, salt)
                   ELSE ProviderSignupHandler(req, salt)
            after == IF role = "tourist" THEN out.tourists ELSE out.providers
        IN IF FailsValidation(role, req)
           THEN out.res.status = 400 /\ after = before /\ out.res.token = NoToken
           ELSE /\ out.res.status = 201
                /\ before \subseteq after
                /\ \E doc \in after \ before :
                     /\ after \ before = {doc}
                     /\ doc.email = req.email
                     /\ \A old \in tourists \cup providers : old.id # doc.id
                     /\ out.res.token = Sign(doc.id, role)

\* a second provider signup with the email of the first has been refused
DuplicateSignupRefused ==
  /\ res = Reply("providerSignup", 400, "Email already exists")
  /\ \E p \in providers : providers = {p} /\ p.email = "ann@x.io" /\ p.id = ProviderId(1)

(***************************************************************************)
(* C16: a provider signup with an uploaded file that is not an accepted    *)
(* image (extension or declared content type not JPEG or PNG, or more than *)
(* 5MB) is answered 400 and creates no provider.                           *)
(***************************************************************************)
\* the accepted images, in the words of the claim
AcceptedImages ==
  {name \in DOMAIN ClientFiles :
     /\ toLowerCase(extname(name)) \in {".jpeg", ".jpg", ".png"}
     /\ ClientFiles[name].mimetype \in {"image/jpeg", "image/png"}
     /\ ClientFiles[name].size <= 5 * 1024 * 1024}

UploadBodies ==
  {ProviderBody(e, "secret1", Str("20"), Files(TRUE, picture, <<photo>>)) :
     e \in {"ann@x.io", "cara@x.io"}, picture \in DOMAIN ClientFiles, photo \in DOMAIN ClientFiles}

RejectedUploadAnswered400 ==
  Ready =>
    \A req \in UploadBodies, salt \in Salts :
      (req.files.profilePicture \notin AcceptedImages \/ req.files.photos[1] \notin AcceptedImages) =>
        LET out == ProviderSignupHandler(req, salt)
        IN out.res.status = 400 /\ out.providers = providers

(***************************************************************************)
(* C17: each of the eight admin operations that take an :id answers a      *)
(* malformed id with 400 and a well-formed id that matches no entity of    *)
(* its collection with 404, and in both cases leaves every stored entity   *)
(* as it was.                                                              *)
(***************************************************************************)
IdOps ==
  {"updateTourist", "deleteTourist", "updateProvider", "deleteProvider", "approveProvider",
   "approveBooking", "deleteBooking", "deleteContact"}

IdInputs == OtherIds \cup {TouristId(1), ProviderId(1), BookingId(1), ContactId(1)}

\* the request bodies of the operation; the operations without a body get one empty body
IdBodies(op) ==
  CASE op = "updateTourist" ->
         {TouristUpdate(e, pw) :
            e \in {Undefined, Str("bob@x.io")}, pw \in {Undefined, Str("hunter22"), Str("abc")}}
    [] op = "updateProvider" ->
         {ProviderUpdate(Undefined, pw, price, "", files) :
            pw \in {Undefined, Str("hunter22")}, price \in {Undefined, Str("9.8")},
            files \in {NoFiles, TwoFiles, Files(FALSE, "", <<>>)}}
    [] OTHER -> {Undefined}

\* the collection the operation looks the id up in
CollectionOf(op) ==
  CASE op \in {"updateTourist", "deleteTourist"} -> tourists
    [] op \in {"updateProvider", "deleteProvider", "approveProvider"} -> providers
    [] op \in {"approveBooking", "deleteBooking"} -> bookings
    [] op = "deleteContact" -> contacts

\* the response of the operation and the four collections after it
IdOutcome(op, id, body, salt) ==
  CASE op = "updateTourist" ->
         LET out == UpdateTouristHandler(id, body, salt)
         IN [res |-> out.res, stored |-> <<out.tourists, providers, bookings, contacts>>]
    [] op = "deleteTourist" ->
         LET out == DeleteTouristHandler(id)
         IN [res |-> out.res, stored |-> <<out.tourists, providers, bookings, contacts>>]
    [] op = "updateProvider" ->
         LET out == UpdateProviderHandler(id, body, salt)
         IN [res |-> out.res, stored |-> <<tourists, out.providers, bookings, contacts>>]
    [] op = "deleteProvider" ->
         LET out == DeleteProviderHandler(id)
         IN [res |-> out.res, stored |-> <<tourists, out.providers, bookings, contacts>>]
    [] op = "approveProvider" ->
         LET out == ApproveProviderHandler(id)
         IN [res |-> out.res, stored |-> <<tourists, out.providers, bookings, contacts>>]
    [] op = "approveBooking" ->
         LET out == ApproveBookingHandler(id)
         IN [res |-> out.res, stored |-> <<tourists, providers, out.bookings, contacts>>]
    [] op = "deleteBooking" ->
         LET out == DeleteBookingHandler(id)
         IN [res |-> out.res, stored |-> <<tourists, providers, out.bookings, contacts>>]
    [] op = "deleteContact" ->
         LET out == DeleteContactHandler(id)
         IN [res |-> out.res, stored |-> <<tourists, providers, bookings, out.contacts>>]

BadIdAnswered ==
  Ready =>
    \A op \in IdOps, id \in IdInputs :
      \A body \in IdBodies(op), salt \in Salts :
        LET out == IdOutcome(op, id, body, salt)
        IN /\ id \notin ObjectIds => out.res.status = 400 /\ out.stored = Stored
           /\ (id \in ObjectIds /\ \A d \in CollectionOf(op) : d.id # id) =>
                out.res.status = 404 /\ out.stored = Stored

(***************************************************************************)
(* C18: PUT /admin/providers/:id on a stored provider changes the supplied *)
(* fields only: the profile picture and the photos when files for them are *)
(* uploaded, the password when one of length >= 6 is supplied (stored      *)
(* hashed; a shorter one is answered 400 and changes nothing), and every   *)
(* other field keeps its value; a request without any file succeeds too.   *)
(***************************************************************************)
MergeUpdates ==
  {ProviderUpdate(e, pw, price, approved, files) :
     e \in {Undefined, Str("cara@x.io")},
     pw \in {Undefined, Str(""), Str("abc"), Str("hunter22")},
     price \in {Undefined, Str("9.8")}, approved \in {"", "true"},
     files \in {NoFiles, TwoFiles, Files(TRUE, "me.png", <<>>), Files(FALSE, "", <<>>)}}

\* the stored provider with the supplied fields, and only those, replaced
Merged(doc, upd, salt) ==
  [id |-> doc.id, serviceName |-> doc.serviceName, fullName |-> doc.fullName,
   contact |-> doc.contact, category |-> doc.category, location |-> doc.location,
   description |-> doc.description,
   email |-> IF upd.email = Undefined THEN doc.email ELSE upd.email.s,
   price |-> IF upd.price = Undefined THEN doc.price ELSE Number(upd.price).n,
   approved |-> IF upd.approved = "" THEN doc.approved ELSE upd.approved = "true",
   password |-> IF upd.password = Undefined THEN doc.password
                ELSE Hash(upd.password.s, salt),
   profilePicture |-> IF upd.files.profilePicture = "" THEN doc.profilePicture
                      ELSE "Uploads/" \o StoredName(upd.files.profilePicture),
   photos |-> IF upd.files.photos = <<>> THEN doc.photos
              ELSE [i \in DOMAIN upd.files.photos |->
                      "Uploads/" \o StoredName(upd.files.photos[i])]]

SuppliedFieldsOnly ==
  Ready =>
    \A doc \in providers, upd \in MergeUpdates, salt \in Salts :
      LET out == UpdateProviderHandler(doc.id, upd, salt)
      IN IF upd.password # Undefined /\ Len(upd.password.s) < 6
         THEN out.res.status = 400 /\ out.providers = providers
         ELSE /\ out.res.status = 200
              /\ out.providers = (providers \ {doc}) \cup {Merged(doc, upd, salt)}

(***************************************************************************)
(* C19: a booking request that passes the earlier checks and names a       *)
(* productType that is no key of the pricing table with a tier list (an    *)
(* unknown string, or Sundowners Cocktail, High Tea or Tuk Tuk Adventures) *)
(* is answered 400 "Invalid product type or no pricing available" and      *)
(* persists no booking.                                                    *)
(***************************************************************************)
UnpricedProducts ==
  {"Sundowners Cocktail", "High Tea", "Tuk Tuk Adventures", "Elephant Ride", "jeep safari"}
    \cup PrototypeKeys

UnpricedRequests ==
  {BookingBody(TouristId(1), "", product, Day, Hour, a, c, "", Undefined) :
     product \in UnpricedProducts, a \in {Fixed(3, 0), Fixed(21, 0)}, c \in {Undefined, Fixed(2, 0)}}

UnpricedProductRefused ==
  Ready =>
    \A req \in UnpricedRequests :
      (ReachesPricing(req) /\ ~HasTierList(req.productType)) =>
        LET out == AddBookingHandler(req)
        IN /\ out.res = Reply("addBooking", 400, "Invalid product type or no pricing available")
           /\ out.bookings = bookings

(***************************************************************************)
(* C20: every tier list of the pricing table is ascending and its bands do *)
(* not overlap (min <= max, each min above the previous max), so at most   *)
(* one band holds a party size N and the first-match lookup returns it;    *)
(* the bands and per-person prices are those of the reference table.       *)
(***************************************************************************)
\* the reference table: <<min, max, price in hundredths>>, max 0 for a band open above
ReferenceTable ==
  [product \in {"Jeep Safari", "Catamaran Boat Ride", "Village Cooking Experience",
                "Bullock Cart Ride", "Village Tour", "Traditional Village Lunch"} |->
     CASE product = "Jeep Safari" ->
            <<<<1, 3, 3800>>, <<4, 5, 3000>>, <<6, 10, 2000>>, <<11, 20, 1500>>>>
       [] product = "Catamaran Boat Ride" -> <<<<1, 1, 980>>, <<2, 0, 700>>>>
       [] product = "Village Cooking Experience" ->
            <<<<1, 5, 1500>>, <<6, 10, 1300>>, <<11, 20, 1100>>, <<21, 50, 1000>>>>
       [] product = "Bullock Cart Ride" -> <<<<1, 5, 990>>, <<6, 20, 500>>, <<21, 50, 400>>>>
       [] product = "Village Tour" ->
            <<<<1, 5, 1990>>, <<6, 10, 1820>>, <<11, 20, 1730>>, <<21, 30, 1630>>,
              <<31, 50, 1500>>>>
       [] product = "Traditional Village Lunch" -> <<<<1, 0, 1500>>>>]

\* party sizes in hundredths of a person: 0, 0.5, 1, ... 55
PartySizes == {50 * k : k \in 0..110}

\* the reference price per person for a party of n, 0 when no band of the product holds n
ReferencePrice(product, n) ==
  LET ref == ReferenceTable[product]
      holding == {i \in DOMAIN ref : ref[i][1] * 100 <= n /\ (ref[i][2] = 0 \/ n <= ref[i][2] * 100)}
  IN IF holding = {} THEN 0 ELSE ref[CHOOSE i \in holding : TRUE][3]

\* the table alone: bands as in the reference, ascending, disjoint, found by first match
BandsAsReference ==
  /\ {product \in DOMAIN PRICING_STRUCTURE : ~PRICING_STRUCTURE[product].null}
       = DOMAIN ReferenceTable
  /\ \A product \in DOMAIN ReferenceTable :
       LET pricing == PRICING_STRUCTURE[product].tiers
           ref == ReferenceTable[product]
       IN /\ Len(pricing) = Len(ref)
          /\ \A i \in DOMAIN pricing :
               /\ pricing[i].min = ref[i][1] * 100
               /\ pricing[i].max = IF ref[i][2] = 0 THEN Infinity ELSE ref[i][2] * 100
               /\ pricing[i].price = ref[i][3]
               /\ pricing[i].max = Infinity \/ pricing[i].min <= pricing[i].max
               /\ i > 1 => pricing[i - 1].max # Infinity /\ pricing[i].min > pricing[i - 1].max
          /\ \A n \in PartySizes :
               LET holding == {i \in DOMAIN pricing : InBand(n, pricing[i])}
               IN /\ Cardinality(holding) <= 1
                  /\ Matching(pricing, Num(n)) = holding
                  /\ \A i \in holding : Find(pricing, Num(n)) = pricing[i]

PricingTableWellFormed ==
  /\ BandsAsReference
  /\ \A b \in bookings :
       b.productType # "" =>
         /\ b.productType \in DOMAIN ReferenceTable
         /\ ReferencePrice(b.productType, b.adults + b.children) # 0
         /\ b.totalPrice * 100
              = (b.adults + b.children) * ReferencePrice(b.productType, b.adults + b.children)

\* a party of six booked the Village Tour at the price of its second band
SecondBandBooked ==
  \E b \in bookings :
    /\ b.productType = "Village Tour" /\ b.adults + b.children = 600
    /\ b.status = "cancelled"
    /\ b.totalPrice * 100 = 600 * ReferencePrice("Village Tour", 600)

(***************************************************************************)
(* C21: every booking that booking creation persists has adults >= 0,      *)
(* children >= 0 and totalPrice >= 0; a request whose adults or children   *)
(* is below 0 or not a number persists no booking; and a request with      *)
(* adults = 0 and children >= 1 is taken as a valid input, not refused as  *)
(* a missing field.                                                        *)
(***************************************************************************)
CountRequests ==
  {BookingBody(TouristId(1), p, product, Day, Hour, a, c, "", Undefined) :
     p \in {"", ProviderId(1)}, product \in {"", "Traditional Village Lunch"},
     a \in {Fixed(0, 0), Fixed(3, 0), Fixed(-1, 0), Str("-5"), Str("abc")},
     c \in {Undefined, Fixed(0, 0), Fixed(2, 0), Fixed(-1, 0), Str("abc")}}

\* the value is a count below 0 or no number at all
BadCount(v) == IsNaN(Number(v)) \/ Number(v).n < 0

CountsInRange ==
  /\ \A b \in bookings : b.adults >= 0 /\ b.children >= 0 /\ b.totalPrice >= 0
  /\ Ready =>
       \A req \in CountRequests :
         LET out == AddBookingHandler(req)
         IN /\ \A b \in Added(out) : b.adults >= 0 /\ b.children >= 0 /\ b.totalPrice >= 0
            /\ (BadCount(req.adults) \/ (req.children # Undefined /\ BadCount(req.children))) =>
                 out.bookings = bookings
            /\ (/\ req.adults = Fixed(0, 0) /\ req.children = Fixed(2, 0)
                /\ (req.providerId = "") # (req.productType = "")
                /\ \E t \in tourists : t.id = req.touristId
                /\ req.providerId # "" => \E q \in providers : q.id = req.providerId) =>
                 out.res.status = 201

(***************************************************************************)
(* C22: connectWithRetry always terminates: it calls mongoose.connect at   *)
(* most 5 times, returns at the first success without exiting and without  *)
(* a further attempt, waits only between two attempts (never after the     *)
(* last one), and calls process.exit(1) if and only if all 5 attempts      *)
(* failed.                                                                 *)
(***************************************************************************)
BootstrapTerminates ==
  /\ <>[](pc \in {"connected", "exited"})
  /\ [](connects <= 5)
  /\ [](pc = "connect" => delays = connects /\ connects < 5)
  /\ [](pc = "delay" => delays = connects - 1 /\ connects < 5)
  /\ [](pc = "connected" => delays = connects - 1 /\ exitCode = NotExited)
  /\ [](pc \in {"failed", "exited"} => connects = 5 /\ delays = 4)
  /\ [](exitCode = <<1>> <=> pc = "exited")
  /\ [](pc = "failed" => <>(pc = "exited"))
  /\ [][pc = "connected" => pc' = "connected" /\ connects' = connects /\ delays' = delays]_vars

\* five attempts failed with four waits between them and the process has exited with code 1
ExitedAfterFiveFailures ==
  pc = "exited" /\ exitCode = <<1>> /\ connects = 5 /\ delays = 4

(***************************************************************************)
(* C23: when two signups for the same collection and email interleave at   *)
(* their await points, both running the lookup before either saves, at     *)
(* most one of them persists an account: no interleaving leaves two        *)
(* accounts of a collection with one email.                                *)
(***************************************************************************)
RacingSignupsPersistOnce ==
  /\ \A e \in Emails :
       Cardinality(FindByEmail(tourists, e)) <= 1 /\ Cardinality(FindByEmail(providers, e)) <= 1
  /\ \A r \in inflight :
       (r.op = "touristSignup" /\ FindByEmail(tourists, r.doc.email) # {} /\ Ready) =>
         LET out == SaveHandler(tourists, r.doc, TouristId(nextTourist + 1), r.op, "tourist")
         IN out.res.status = 500 /\ out.collection = tourists
  /\ \A r \in inflight :
       (r.op = "providerSignup" /\ FindByEmail(providers, r.doc.email) # {} /\ Ready) =>
         LET out == SaveHandler(providers, r.doc, ProviderId(nextProvider + 1), r.op, "provider")
         IN out.res.status = 500 /\ out.collection = providers

\* two signups with one email were in flight together; the first saved, the second was refused
LateSaveRefused ==
  /\ res = ServerError("touristSignup")
  /\ inflight = {}
  /\ \E t \in tourists : tourists = {t} /\ t.email = "ann@x.io"

(***************************************************************************)
(* C25: in every reachable state the touristId of each persisted booking   *)
(* is the id of a stored tourist and its providerId, when set, the id of a *)
(* stored provider, whatever the order of booking creations and deletions, *)
(* a deletion between the lookups and Booking.create included.             *)
(***************************************************************************)
BookingReferencesResolve ==
  \A b \in bookings :
    /\ \E t \in tourists : t.id = b.touristId
    /\ b.providerId # "" => \E q \in providers : q.id = b.providerId

(***************************************************************************)
(* C24: a token of role admin is issued only by a login whose password     *)
(* matched the hash of the Admin record found by username; the role of     *)
(* every issued token is the collection its credentials were verified in;  *)
(* the signups issue tokens of their own role only; hence, a request       *)
(* carrying a verified token only if the server issued it, every step of   *)
(* an admin route handler comes after a successful admin login.            *)
(***************************************************************************)
\* the accounts a login of the role verifies its credentials against, with their login names
VerifiedIn(role) ==
  CASE role = "tourist" -> {[id |-> t.id, name |-> t.email, password |-> t.password] : t \in tourists}
    [] role = "provider" ->
         {[id |-> q.id, name |-> q.email, password |-> q.password] : q \in providers}
    [] role = "admin" -> {[id |-> a.id, name |-> a.username, password |-> a.password] : a \in Admins}

AdminTokenOnlyByAdminLogin ==
  /\ [](Ready =>
          \A req \in TokenLogins : \A r \in LoginResponses(req) :
            r.token # NoToken =>
              /\ r.token.role = req.role
              /\ \E user \in VerifiedIn(req.role) :
                   /\ user.id = r.token.id
                   /\ user.name = req.email
                   /\ Compare(req.password, user.password))
  /\ [](Ready =>
          \A role \in SignupRoles : \A req \in SignupBodies(role), salt \in Salts :
            LET out == IF role = "tourist" THEN TouristSignupHandler(req, salt)
                       ELSE ProviderSignupHandler(req, salt)
            IN out.res.token # NoToken => out.res.token.role = role)
  /\ [](\A i \in issued :
          /\ i.token.role = "admin" => i.op = "login" /\ \E a \in Admins : a.id = i.token.id
          /\ i.op = "touristSignup" => i.token.role = "tourist"
          /\ i.op = "providerSignup" => i.token.role = "provider")
  /\ [][res'.op \in AdminOps =>
          \E i \in issued : i.op = "login" /\ i.token.role = "admin" /\ i.token = reqUser']_vars

\* the admin has logged in and then added a tourist with the token of that login
TouristAddedAfterAdminLogin ==
  /\ res = Reply("addTourist", 201, "")
  /\ reqUser = Sign("a1", "admin")
  /\ Issued("login", Sign("a1", "admin")) \in issued

====
